---- MODULE Spec2Model ----
(***************************************************************************)
(* Code City isometric visualizer (canvas-visualizer.js): layout engine,   *)
(* view-fit calculator, renderer hit boxes, draw order and colours,        *)
(* interaction controller; and the git metadata colour manager             *)
(* (unnamed/part_000).                                                     *)
(*                                                                         *)
(* Numbers.  World coordinates are whole units; the square-root footprint  *)
(* is taken as the integer part of buildingWidth * sqrt(loc / 50).  Screen  *)
(* coordinates, scale and offsets are exact rationals <<n, d>> (d > 0, in   *)
(* lowest terms; d = 0 for Infinity, -Infinity and NaN).  cos(isoAngle) is  *)
(* the rational CosNum / CosDen and sin(isoAngle) is SinNum / SinDen.       *)
(***************************************************************************)
EXTENDS Integers, Sequences, FiniteSets, TLC

(***************************************************************************)
(* CONFIG (canvas-visualizer.js lines 4-55)                                *)
(***************************************************************************)
buildingWidth == 30
buildingDepth == 30
buildingSpacing == 5
packagePadding == 20
packageSpacing == 0
locToHeightScaleNum == 8
locToHeightScaleDen == 10
minBuildingHeight == 10
minBuildingWidth == 20
maxBuildingWidth == 80
minBuildingDepth == 20
maxBuildingDepth == 80
footprintLocDivisor == 50
platformHeight == 5
buildingZ == 5
estimatedPackageSize == 150
maxBuildingsPerRowCap == 6
CosNum == 13
CosDen == 15
SinNum == 1
SinDen == 2
fitPadding == 50
maxFitScaleNum == 3
maxFitScaleDen == 2
initialOffset == 100
initialScale == 1
\* buildingBaseColor '#34495e', buildingHighlightColor '#3498db' and
\* buildingSelectedColor '#e74c3c' as <<red, green, blue>>
buildingBaseColor == <<52, 73, 94>>
buildingHighlightColor == <<52, 152, 219>>
buildingSelectedColor == <<231, 76, 60>>
showGitData == TRUE

LayoutStrategies == {"quadrant", "grid"}

\* the absent value; every present value is a record or a non-empty tuple
null == <<>>
undefined == <<>>

(***************************************************************************)
(* Bounds of the model                                                     *)
(***************************************************************************)
MaxPackages == 2
MaxClasses == 3
MaxLayoutClasses == 3
MaxLayouts == 2

\* linesOfCode values of the documents that are loaded
LocValues == {450}
\* linesOfCode values of the packages the layout functions are applied to
LayoutLocValues == {0, 1, 50, 85, 150, 200, 450, 100000}

(***************************************************************************)
(* Integer helpers                                                         *)
(***************************************************************************)
Min2(a, b) == IF a <= b THEN a ELSE b
Max2(a, b) == IF a >= b THEN a ELSE b

\* Math.ceil(Math.sqrt(n)) for n >= 0
CeilSqrt(n) == CHOOSE r \in 0..n : r * r >= n /\ (r = 0 \/ (r - 1) * (r - 1) < n)

\* integer part of Math.sqrt(q), saturated at cap (the callers clamp at cap)
FloorSqrtCapped(q, cap) ==
    IF q >= cap * cap THEN cap
    ELSE CHOOSE r \in 0..cap : r * r <= q /\ (r + 1) * (r + 1) > q

\* Math.ceil(a / b) for a >= 0, b > 0
CeilDiv(a, b) == (a + b - 1) \div b

RECURSIVE SeqSum(_)
SeqSum(s) == IF s = <<>> THEN 0 ELSE Head(s) + SeqSum(Tail(s))

(***************************************************************************)
(* calculatePackageMass, calculateBuildingFootprint                        *)
(***************************************************************************)
calculatePackageMass(pkg) ==
    SeqSum([i \in 1..Len(pkg.classes) |-> pkg.classes[i].linesOfCode])

\* base * Math.sqrt(linesOfCode / 50), integer part, saturated at hi
ScaledSide(base, linesOfCode, hi) ==
    FloorSqrtCapped((base * base * linesOfCode) \div footprintLocDivisor, hi)

FootprintNarrow(linesOfCode) ==
    [width |-> Min2(maxBuildingWidth,
                    ScaledSide(buildingWidth, linesOfCode, maxBuildingWidth)),
     depth |-> Min2(maxBuildingDepth,
                    ScaledSide(buildingDepth, linesOfCode, maxBuildingDepth))]

calculateBuildingFootprint(linesOfCode) ==
    [width |-> Min2(maxBuildingWidth,
                    Max2(minBuildingWidth,
                         ScaledSide(buildingWidth, linesOfCode, maxBuildingWidth))),
     depth |-> Min2(maxBuildingDepth,
                    Max2(minBuildingDepth,
                         ScaledSide(buildingDepth, linesOfCode, maxBuildingDepth)))]

(***************************************************************************)
(* Array.prototype.sort with a descending comparator (stable)              *)
(***************************************************************************)
RECURSIVE InsertDesc(_, _, _, _)
\* insert element e with key k into the descending sequence s (keys ks),
\* after every element whose key is >= k
InsertDesc(s, ks, e, k) ==
    IF s = <<>> THEN <<e>>
    ELSE IF Head(ks) >= k
         THEN <<Head(s)>> \o InsertDesc(Tail(s), Tail(ks), e, k)
         ELSE <<e>> \o s

RECURSIVE SortClassesFrom(_, _)
SortClassesFrom(classes, acc) ==
    IF classes = <<>> THEN acc
    ELSE SortClassesFrom(
            Tail(classes),
            InsertDesc(acc, [i \in 1..Len(acc) |-> acc[i].linesOfCode],
                       Head(classes), Head(classes).linesOfCode))

\* [...pkg.classes].sort((a, b) => b.linesOfCode - a.linesOfCode)
SortClasses(classes) == SortClassesFrom(classes, <<>>)

RECURSIVE SortByMassFrom(_, _)
SortByMassFrom(pwm, acc) ==
    IF pwm = <<>> THEN acc
    ELSE SortByMassFrom(
            Tail(pwm),
            InsertDesc(acc, [i \in 1..Len(acc) |-> acc[i].mass],
                       Head(pwm), Head(pwm).mass))

\* data.packages.map(pkg => ({pkg, mass})).sort((a, b) => b.mass - a.mass)
PackagesWithMass(data) ==
    SortByMassFrom([i \in 1..Len(data.packages) |->
                      [pkg |-> data.packages[i],
                       mass |-> calculatePackageMass(data.packages[i])]], <<>>)

(***************************************************************************)
(* calculatePackageLayout (lines 520-564)                                  *)
(***************************************************************************)
\* the cursor starts on the package's corner
PackStartAtOrigin ==
    [currentX |-> 0, currentY |-> 0, rowHeight |-> 0,
     maxWidth |-> 0, totalDepth |-> packagePadding, positions |-> <<>>]

\* lines 526-531: the cursor and the running extents before the first class
PackStart ==
    [currentX |-> packagePadding, currentY |-> packagePadding, rowHeight |-> 0,
     maxWidth |-> 0, totalDepth |-> packagePadding, positions |-> <<>>]

\* the wrapped cursor keeps the row's y: rows are not advanced
PackWrapSameRow(st, index, maxBuildingsPerRow) ==
    IF index > 0 /\ index % maxBuildingsPerRow = 0
    THEN [st EXCEPT !.currentX = packagePadding, !.rowHeight = 0]
    ELSE st

\* a new row is started one building late
PackWrapLate(st, index, maxBuildingsPerRow) ==
    IF index > 0 /\ index % (maxBuildingsPerRow + 1) = 0
    THEN [st EXCEPT !.currentX = packagePadding,
                    !.currentY = st.currentY + st.rowHeight + buildingSpacing,
                    !.rowHeight = 0]
    ELSE st

\* lines 536-540: start a new row every maxBuildingsPerRow buildings
PackWrap(st, index, maxBuildingsPerRow) ==
    IF index > 0 /\ index % maxBuildingsPerRow = 0
    THEN [st EXCEPT !.currentX = packagePadding,
                    !.currentY = st.currentY + st.rowHeight + buildingSpacing,
                    !.rowHeight = 0]
    ELSE st

\* lines 542-555: place one class at the cursor and advance the cursor
PackPlace(st, cls) ==
    LET footprint == calculateBuildingFootprint(cls.linesOfCode)
        buildingEndX == st.currentX + footprint.width
        buildingEndY == st.currentY + footprint.depth
    IN [currentX |-> st.currentX + footprint.width + buildingSpacing,
        currentY |-> st.currentY,
        rowHeight |-> Max2(st.rowHeight, footprint.depth),
        maxWidth |-> Max2(st.maxWidth, buildingEndX),
        totalDepth |-> Max2(st.totalDepth, buildingEndY),
        positions |-> Append(st.positions,
                             [x |-> st.currentX, y |-> st.currentY, class |-> cls])]

RECURSIVE PackLoop(_, _, _, _)
\* sortedClasses.forEach((cls, index) => ...), index is 0-based and counts
\* the positions pushed so far; the loop ends when every class has one
PackLoop(sortedClasses, index, maxBuildingsPerRow, st) ==
    IF Len(st.positions) >= Len(sortedClasses) THEN st
    ELSE PackLoop(sortedClasses, index + 1, maxBuildingsPerRow,
                  PackPlace(PackWrap(st, index, maxBuildingsPerRow),
                            sortedClasses[index + 1]))

calculatePackageLayout(pkg) ==
    LET sortedClasses == SortClasses(pkg.classes)
        maxBuildingsPerRow == Min2(maxBuildingsPerRowCap, CeilSqrt(Len(pkg.classes)))
        st == PackLoop(sortedClasses, 0, maxBuildingsPerRow, PackStart)
    IN [width |-> st.maxWidth + packagePadding,
        height |-> platformHeight,
        depth |-> st.totalDepth + packagePadding,
        positions |-> st.positions]

(***************************************************************************)
(* layoutPackagesInRegion (lines 272-333).  A city is the pair of the      *)
(* module-level arrays packages and buildings; gen numbers the processData *)
(* call that creates the objects, so <<gen, n>> is the identity of the     *)
(* n-th building object created by that call.                              *)
(***************************************************************************)
EmptyCity == [packages |-> <<>>, buildings |-> <<>>]

\* lines 302-305; LocValues and LayoutLocValues hold values whose product
\* with locToHeightScale is whole or below minBuildingHeight
BuildingHeight(linesOfCode) ==
    Max2(minBuildingHeight,
         (linesOfCode * locToHeightScaleNum) \div locToHeightScaleDen)

\* lines 310-322
NewBuilding(pkg, pos, packageX, packageY, gen, n) ==
    LET footprint == calculateBuildingFootprint(pos.class.linesOfCode)
    IN [id |-> <<gen, n>>,
        className |-> pos.class.name,
        packageName |-> pkg.name,
        linesOfCode |-> pos.class.linesOfCode,
        gitMetadata |-> pos.class.gitMetadata,
        x |-> packageX + pos.x,
        y |-> packageY + pos.y,
        z |-> buildingZ,
        width |-> footprint.width,
        depth |-> footprint.depth,
        height |-> BuildingHeight(pos.class.linesOfCode),
        color |-> buildingBaseColor]

\* lines 282-286: wrap to the next row
RegionWrap(cur, idx, startX, maxRowWidth, pkgLayout) ==
    IF idx > 0 /\ cur.packageX - startX + pkgLayout.width > maxRowWidth
    THEN [packageX |-> startX,
          packageY |-> cur.packageY + cur.maxRowHeight + packageSpacing,
          maxRowHeight |-> 0]
    ELSE cur

\* lines 288-328: the platform and the buildings of one package
PlacePackage(city, pkg, pkgLayout, cur, gen) ==
    LET base == Len(city.buildings)
        created == [k \in 1..Len(pkgLayout.positions) |->
                      NewBuilding(pkg, pkgLayout.positions[k],
                                  cur.packageX, cur.packageY, gen, base + k)]
        packageObj == [name |-> pkg.name,
                       x |-> cur.packageX,
                       y |-> cur.packageY,
                       width |-> pkgLayout.width,
                       height |-> pkgLayout.height,
                       depth |-> pkgLayout.depth,
                       z |-> 0,
                       buildings |-> [k \in 1..Len(created) |-> created[k].id]]
    IN [packages |-> Append(city.packages, packageObj),
        buildings |-> city.buildings \o created]

\* lines 276-331: one package placed at the wrapped cursor, and the cursor
\* moved past it
RegionStep(cur, idx, startX, maxRowWidth, city, pkg, pkgLayout, gen) ==
    LET c1 == RegionWrap(cur, idx, startX, maxRowWidth, pkgLayout)
    IN [cur |-> [packageX |-> c1.packageX + pkgLayout.width + packageSpacing,
                 packageY |-> c1.packageY,
                 maxRowHeight |-> Max2(c1.maxRowHeight, pkgLayout.depth)],
        city |-> PlacePackage(city, pkg, pkgLayout, c1, gen)]

RECURSIVE RegionLoop(_, _, _, _, _, _, _)
\* the rest of the loop after a step
RegionNext(pwm, idx, startX, maxRowWidth, step, gen) ==
    RegionLoop(pwm, idx + 1, startX, maxRowWidth, step.cur, step.city, gen)

\* packagesWithMass.forEach((pkgWithMass, idx) => ...), idx is 0-based
RegionLoop(pwm, idx, startX, maxRowWidth, cur, city, gen) ==
    IF idx >= Len(pwm) THEN city
    ELSE RegionNext(pwm, idx, startX, maxRowWidth,
                    RegionStep(cur, idx, startX, maxRowWidth, city,
                               pwm[idx + 1].pkg,
                               calculatePackageLayout(pwm[idx + 1].pkg), gen),
                    gen)

layoutPackagesInRegion(pwm, startX, startY, maxRowWidth, city, gen) ==
    RegionLoop(pwm, 0, startX, maxRowWidth,
               [packageX |-> startX, packageY |-> startY, maxRowHeight |-> 0],
               city, gen)

\* the slice with the element at index to included
SliceInclusive(s, from, to) ==
    LET lo == Min2(from, Len(s))
        hi == Min2(to + 1, Len(s))
    IN IF hi <= lo THEN <<>> ELSE SubSeq(s, lo + 1, hi)

\* Array.prototype.slice(from, to), 0-based, to exclusive, clipped to the array
Slice(s, from, to) ==
    LET lo == Min2(from, Len(s))
        hi == Min2(to, Len(s))
    IN IF hi <= lo THEN <<>> ELSE SubSeq(s, lo + 1, hi)

\* lines 233-259
layoutPackagesQuadrant(pwm, city, gen) ==
    LET quartileSize == CeilDiv(Len(pwm), 4)
        q1 == Slice(pwm, 0, quartileSize)
        q2 == Slice(pwm, quartileSize, quartileSize * 2)
        q3 == Slice(pwm, quartileSize * 2, quartileSize * 3)
        q4 == Slice(pwm, quartileSize * 3, Len(pwm))
        packagesPerQuadrant == CeilDiv(Len(pwm), 4)
        packagesPerRowInQuadrant == CeilSqrt(packagesPerQuadrant)
        maxRowWidth == packagesPerRowInQuadrant * estimatedPackageSize
    IN layoutPackagesInRegion(q4, 0, 0, maxRowWidth,
         layoutPackagesInRegion(q3, 0, maxRowWidth * 2, maxRowWidth,
           layoutPackagesInRegion(q2, maxRowWidth * 2, 0, maxRowWidth,
             layoutPackagesInRegion(q1, maxRowWidth, maxRowWidth, maxRowWidth,
                                    city, gen),
             gen),
           gen),
         gen)

\* lines 262-269
layoutPackagesGrid(pwm, city, gen) ==
    LET packagesPerRow == CeilSqrt(Len(pwm))
        maxRowWidth == packagesPerRow * estimatedPackageSize
    IN layoutPackagesInRegion(pwm, 0, 0, maxRowWidth, city, gen)

\* processData lines 341-351, on the arrays it is given
LayoutCity(data, strategy, city, gen) ==
    IF strategy = "grid"
    THEN layoutPackagesGrid(PackagesWithMass(data), city, gen)
    ELSE layoutPackagesQuadrant(PackagesWithMass(data), city, gen)

(***************************************************************************)
(* Exact rational arithmetic for screen-space numbers: <<n, d>>, d > 0     *)
(***************************************************************************)
Abs(i) == IF i < 0 THEN -i ELSE i

RECURSIVE Gcd(_, _)
Gcd(a, b) == IF b = 0 THEN a ELSE Gcd(b, a % b)

\* d = 0 stands for the non-finite Numbers: <<1, 0>> is Infinity, <<-1, 0>>
\* is -Infinity and <<0, 0>> is NaN
Sign(i) == IF i > 0 THEN 1 ELSE IF i < 0 THEN -1 ELSE 0
NaN == <<0, 0>>
IsNaN(a) == a[1] = 0 /\ a[2] = 0
IsFinite(a) == a[2] # 0

Rat(n, d) ==
    IF d = 0 THEN <<Sign(n), 0>>
    ELSE LET g == Gcd(Abs(n), Abs(d))
             sgn == IF d < 0 THEN -1 ELSE 1
         IN <<sgn * (n \div g), sgn * (d \div g)>>

RInt(i) == <<i, 1>>
\* the least common denominator keeps the intermediate products small
Lcd(a, b) == (a[2] \div Gcd(a[2], b[2])) * b[2]
OnLcd(a, l) == a[1] * (l \div a[2])
RNeg(a) == <<-a[1], a[2]>>
RAdd(a, b) ==
    IF IsFinite(a) /\ IsFinite(b)
    THEN LET l == Lcd(a, b) IN Rat(OnLcd(a, l) + OnLcd(b, l), l)
    ELSE IF IsNaN(a) \/ IsNaN(b) THEN NaN
    ELSE IF IsFinite(a) THEN b
    ELSE IF IsFinite(b) \/ a = b THEN a
    ELSE NaN
RSub(a, b) == RAdd(a, RNeg(b))
RMul(a, b) ==
    IF IsFinite(a) /\ IsFinite(b)
    THEN LET g1 == Gcd(Abs(a[1]), b[2])
             g2 == Gcd(Abs(b[1]), a[2])
         IN Rat((a[1] \div g1) * (b[1] \div g2), (a[2] \div g2) * (b[2] \div g1))
    ELSE <<Sign(a[1]) * Sign(b[1]), 0>>
\* a / b; the divisor 0 is +0
RDiv(a, b) == RMul(a, Rat(b[2], b[1]))
\* a === b
REq(a, b) == ~IsNaN(a) /\ a = b
RLe(a, b) ==
    IF IsFinite(a) /\ IsFinite(b)
    THEN LET l == Lcd(a, b) IN OnLcd(a, l) <= OnLcd(b, l)
    ELSE ~IsNaN(a) /\ ~IsNaN(b) /\ (a = b \/ a = <<-1, 0>> \/ b = <<1, 0>>)
RLt(a, b) == RLe(a, b) /\ a # b
RMin(a, b) == IF IsNaN(a) \/ IsNaN(b) THEN NaN ELSE IF RLe(a, b) THEN a ELSE b
RMax(a, b) == IF IsNaN(a) \/ IsNaN(b) THEN NaN ELSE IF RLe(b, a) THEN a ELSE b
RHalf(a) == RMul(a, <<1, 2>>)

RECURSIVE RSeqMin(_, _, _)
RSeqMin(s, i, m) ==
    IF i > Len(s) THEN m ELSE RSeqMin(s, i + 1, RMin(m, s[i]))
RECURSIVE RSeqMax(_, _, _)
RSeqMax(s, i, m) ==
    IF i > Len(s) THEN m ELSE RSeqMax(s, i + 1, RMax(m, s[i]))
\* Math.min(...s) / Math.max(...s) over a non-empty sequence of rationals
\* ToSeq makes the sequence explicit, element by element
ToSeq(f) == f \o <<>>
RMinOf(s) == RSeqMin(s, 2, s[1])
RMaxOf(s) == RSeqMax(s, 2, s[1])
SetMin(S) == CHOOSE m \in S : \A e \in S : m <= e
SetMax(S) == CHOOSE m \in S : \A e \in S : m >= e

Cos30 == Rat(CosNum, CosDen)
Sin30 == Rat(SinNum, SinDen)

(***************************************************************************)
(* toIsometric (lines 198-206) and the corners of a box                    *)
(***************************************************************************)
\* toIsoRaw, lines 449-452
toIsoRaw(x, y, z) ==
    [x |-> RMul(RInt(x - y), Cos30),
     y |-> RSub(RMul(RInt(x + y), Sin30), RInt(z))]

\* lines 202-205: the projected point scaled and moved by the view
ViewPoint(raw, view) ==
    [x |-> RAdd(RMul(raw.x, view.scale), view.offsetX),
     y |-> RAdd(RMul(raw.y, view.scale), view.offsetY)]

toIsometric(x, y, z, view) == ViewPoint(toIsoRaw(x, y, z), view)

\* the 8 corners of the box [x0, x1] x [y0, y1] x [z0, z1], in the source's order
BoxCorners(x0, x1, y0, y1, z0, z1) ==
    << <<x0, y0, z0>>, <<x1, y0, z0>>, <<x1, y1, z0>>, <<x0, y1, z0>>,
       <<x0, y0, z1>>, <<x1, y0, z1>>, <<x1, y1, z1>>, <<x0, y1, z1>> >>

(***************************************************************************)
(* calculateViewTransform (lines 412-517)                                  *)
(***************************************************************************)
\* lines 417-440: bounding box of the city in 3D space
CityBounds(city) ==
    LET ps == {city.packages[i] : i \in 1..Len(city.packages)}
        bs == {city.buildings[i] : i \in 1..Len(city.buildings)}
    IN [minX |-> SetMin({o.x : o \in ps} \cup {o.x : o \in bs}),
        maxX |-> SetMax({o.x + o.width : o \in ps} \cup {o.x + o.width : o \in bs}),
        minY |-> SetMin({o.y : o \in ps} \cup {o.y : o \in bs}),
        maxY |-> SetMax({o.y + o.depth : o \in ps} \cup {o.y + o.depth : o \in bs}),
        minZ |-> SetMin({o.z : o \in ps} \cup {o.z : o \in bs}),
        maxZ |-> SetMax({o.z + o.height : o \in ps} \cup {o.z + o.height : o \in bs})]

\* lines 454-463, for the bounding box b
BoundsCorners(b) ==
    ToSeq([k \in 1..8 |->
             LET c == BoxCorners(b.minX, b.maxX, b.minY, b.maxY, b.minZ, b.maxZ)[k]
             IN toIsoRaw(c[1], c[2], c[3])])

CityCorners(city) == BoundsCorners(CityBounds(city))

\* lines 465-485, for the projected corners
FitScaleOf(corners, canvas) ==
    LET xs == ToSeq([k \in 1..8 |-> corners[k].x])
        screenWidth == RSub(RMaxOf(xs), RMinOf(xs))
        ys == ToSeq([k \in 1..8 |-> corners[k].y])
        screenHeight == RSub(RMaxOf(ys), RMinOf(ys))
        availableWidth == canvas.width - fitPadding * 2
        availableHeight == canvas.height - fitPadding * 2
        scaleX == RDiv(RInt(availableWidth), screenWidth)
        scaleY == RDiv(RInt(availableHeight), screenHeight)
    IN RMin(RMin(scaleX, scaleY), Rat(maxFitScaleNum, maxFitScaleDen))

FitScale(city, canvas) == FitScaleOf(CityCorners(city), canvas)

\* screenWidth and screenHeight of lines 475-476
CornerSpans(corners) ==
    LET xs == ToSeq([k \in 1..8 |-> corners[k].x])
        ys == ToSeq([k \in 1..8 |-> corners[k].y])
    IN {RSub(RMaxOf(xs), RMinOf(xs)), RSub(RMaxOf(ys), RMinOf(ys))}

\* the divisors of lines 483-484; the guard of line 413 returns before them
FitDivisors(city) ==
    IF Len(city.buildings) = 0 /\ Len(city.packages) = 0 THEN {}
    ELSE CornerSpans(CityCorners(city))

\* lines 489-508, for the projected corners
FitOffsetsOf(corners, canvas, newScale) ==
    LET sx == ToSeq([k \in 1..8 |-> RMul(corners[k].x, newScale)])
        sy == ToSeq([k \in 1..8 |-> RMul(corners[k].y, newScale)])
        screenCenterX == RHalf(RAdd(RMinOf(sx), RMaxOf(sx)))
        screenCenterY == RHalf(RAdd(RMinOf(sy), RMaxOf(sy)))
    IN [offsetX |-> RSub(Rat(canvas.width, 2), screenCenterX),
        offsetY |-> RSub(Rat(canvas.height, 2), screenCenterY)]

FitOffsets(city, canvas, newScale) ==
    FitOffsetsOf(CityCorners(city), canvas, newScale)

\* lines 485-508: the view for the corners and the scale fitted to them
FitViewOf(corners, canvas, newScale) ==
    [scale |-> newScale,
     offsetX |-> FitOffsetsOf(corners, canvas, newScale).offsetX,
     offsetY |-> FitOffsetsOf(corners, canvas, newScale).offsetY]

FitView(corners, canvas) ==
    FitViewOf(corners, canvas, FitScaleOf(corners, canvas))

\* an empty city resets the view to the configured defaults
ViewTransformResetOnEmpty(city, canvas, view) ==
    IF Len(city.buildings) = 0 /\ Len(city.packages) = 0
    THEN [scale |-> RInt(initialScale), offsetX |-> RInt(initialOffset),
          offsetY |-> RInt(initialOffset)]
    ELSE FitView(CityCorners(city), canvas)

\* the view {scale, offsetX, offsetY} that calculateViewTransform leaves
calculateViewTransform(city, canvas, view) ==
    IF Len(city.buildings) = 0 /\ Len(city.packages) = 0 THEN view
    ELSE FitView(CityCorners(city), canvas)

(***************************************************************************)
(* renderCity / drawBuilding (lines 567-594, 689-706, 762-768).  One pass  *)
(* draws every building of the array with the same scale and offsets, so   *)
(* the screenBounds the pass stores in the buildings are kept as the view  *)
(* of that pass: building.screenBounds is ScreenBounds(building, rendered).*)
(***************************************************************************)
\* lines 763-768
CornerBounds(corners) ==
    LET xs == ToSeq([k \in 1..8 |-> corners[k].x])
        ys == ToSeq([k \in 1..8 |-> corners[k].y])
    IN [minX |-> RMinOf(xs), maxX |-> RMaxOf(xs),
        minY |-> RMinOf(ys), maxY |-> RMaxOf(ys)]

\* lines 696-706 and 763-768, for the view of the pass
ScreenBoundsOf(b, view) ==
    CornerBounds(
        ToSeq([k \in 1..8 |->
                 LET c == BoxCorners(b.x, b.x + b.width, b.y, b.y + b.depth,
                                     b.z, b.z + b.height)[k]
                 IN toIsometric(c[1], c[2], c[3], view)]))

\* building.screenBounds: undefined until a pass has drawn the building
ScreenBounds(b, rendered) ==
    IF rendered = undefined THEN undefined ELSE ScreenBoundsOf(b, rendered)

\* the view of the last pass after renderCity(): nothing is drawn without data
renderCity(data, view, rendered) ==
    IF data = null THEN rendered ELSE view

(***************************************************************************)
(* The draw list of a render pass (lines 574-593)                          *)
(***************************************************************************)
\* lines 575-578: the platforms, then the buildings
AllObjects(city) ==
    [i \in 1..Len(city.packages) |-> [type |-> "package", obj |-> city.packages[i]]]
    \o [i \in 1..Len(city.buildings) |-> [type |-> "building", obj |-> city.buildings[i]]]

\* lines 581-582
DepthKey(item) == item.obj.y + item.obj.x

RECURSIVE InsertAsc(_, _)
\* insert item into the ascending list s, after every item whose key is <= its own
InsertAsc(s, item) ==
    IF s = <<>> THEN <<item>>
    ELSE IF DepthKey(Head(s)) <= DepthKey(item)
         THEN <<Head(s)>> \o InsertAsc(Tail(s), item)
         ELSE <<item>> \o s

RECURSIVE SortByDepthFrom(_, _)
SortByDepthFrom(items, acc) ==
    IF items = <<>> THEN acc
    ELSE SortByDepthFrom(Tail(items), InsertAsc(acc, Head(items)))

\* the objects are drawn as they were inserted
DrawListUnsorted(city) == AllObjects(city)

\* the buildings before the platforms, each in placement order
DrawListBuildingsFirst(city) ==
    [i \in 1..Len(city.buildings) |-> [type |-> "building", obj |-> city.buildings[i]]]
    \o [i \in 1..Len(city.packages) |-> [type |-> "package", obj |-> city.packages[i]]]

\* lines 580-593: allObjects.sort((a, b) => depthA - depthB) (stable), drawn
\* from first to last
DrawList(city) == SortByDepthFrom(AllObjects(city), <<>>)

(***************************************************************************)
(* GitMetadataColorManager (unnamed/part_000).  commits and the time stamps *)
(* are Numbers <<n, d>>; an absent field is undefined.  lastModified stands *)
(* for new Date(lastModified).getTime(), NaN for a text that is no date.    *)
(* Time stamps count quarter days, so one day (1000 * 60 * 60 * 24 ms) is   *)
(* UnitsPerDay units.                                                       *)
(***************************************************************************)
UnitsPerDay == 4
maxAgeDays == 365

\* constructor, line 6: this.maxCommits = maxCommits || 1
GitMetadataColorManager(maxCommits) ==
    [maxCommits |-> IF maxCommits = 0 THEN 1 ELSE maxCommits]

\* lines 45-47 and 94-96
DaysSinceChange(now, lastModifiedTime) ==
    RDiv(RSub(now, lastModifiedTime), RInt(UnitsPerDay))

\* commits / maxCommits without the clamp to 1
NormalizedFrequencyUnclamped(commits, maxCommits) ==
    RDiv(commits, RInt(maxCommits))

\* line 32
NormalizedFrequency(commits, maxCommits) ==
    RMin(RInt(1), RDiv(commits, RInt(maxCommits)))

\* 1 - days / 365 without the clamp to 0
AgeFactorUnclamped(daysSinceChange) ==
    RMin(RInt(1), RSub(RInt(1), RDiv(daysSinceChange, RInt(maxAgeDays))))

\* line 51
AgeFactor(daysSinceChange) ==
    RMax(RInt(0),
         RMin(RInt(1), RSub(RInt(1), RDiv(daysSinceChange, RInt(maxAgeDays)))))

\* the condition without the useFrequency option
UsesFrequencyAlways(useFrequency, gitMetadata) ==
    gitMetadata # undefined /\ gitMetadata.commits # undefined

\* the condition of line 31
UsesFrequency(useFrequency, gitMetadata) ==
    useFrequency /\ gitMetadata # undefined /\ gitMetadata.commits # undefined

\* the condition of line 44; a lastModified text that is present is not empty
UsesAge(useAge, gitMetadata) ==
    useAge /\ gitMetadata # undefined /\ gitMetadata.lastModified # undefined

\* lines 19-58
getColorForBuilding(this, gitMetadata, options, now) ==
    LET hue ==
            IF UsesFrequency(options.useFrequency, gitMetadata)
            THEN LET normalizedFrequency ==
                         NormalizedFrequency(gitMetadata.commits, this.maxCommits)
                 IN IF options.colorBlindMode
                    THEN RSub(RInt(270), RMul(normalizedFrequency, RInt(240)))
                    ELSE RSub(RInt(240), RMul(normalizedFrequency, RInt(240)))
            ELSE RInt(200)
        saturation ==
            IF UsesAge(options.useAge, gitMetadata)
            THEN LET daysSinceChange ==
                         DaysSinceChange(now, gitMetadata.lastModified)
                 IN RAdd(RInt(20), RMul(AgeFactor(daysSinceChange), RInt(50)))
            ELSE RInt(70)
    IN [hue |-> hue, saturation |-> saturation, lightness |-> RInt(50)]

\* daysSinceChange < days
isRecentStrict(gitMetadata, days, now) ==
    IF gitMetadata = undefined \/ gitMetadata.lastModified = undefined
    THEN FALSE
    ELSE RLt(DaysSinceChange(now, gitMetadata.lastModified), RInt(days))

\* lines 91-99
isRecent(gitMetadata, days, now) ==
    IF gitMetadata = undefined \/ gitMetadata.lastModified = undefined
    THEN FALSE
    ELSE RLe(DaysSinceChange(now, gitMetadata.lastModified), RInt(days))

\* Math.floor of a Number
RFloor(a) == IF IsFinite(a) THEN RInt(a[1] \div a[2]) ELSE a

\* the template `${count} ${text}`, or the text alone (count undefined)
DateText(count, text) == [count |-> count, text |-> text]

\* the same ranges with daysDiff <= 7, <= 30 and <= 365
formatDateInclusive(dateString, now) ==
    IF dateString = undefined THEN DateText(undefined, "Unknown")
    ELSE LET daysDiff == RFloor(DaysSinceChange(now, dateString))
         IN IF REq(daysDiff, RInt(0)) THEN DateText(undefined, "Today")
            ELSE IF REq(daysDiff, RInt(1)) THEN DateText(undefined, "Yesterday")
            ELSE IF RLe(daysDiff, RInt(7)) THEN DateText(daysDiff, "days ago")
            ELSE IF RLe(daysDiff, RInt(30))
            THEN DateText(RFloor(RDiv(daysDiff, RInt(7))), "weeks ago")
            ELSE IF RLe(daysDiff, RInt(365))
            THEN DateText(RFloor(RDiv(daysDiff, RInt(30))), "months ago")
            ELSE DateText(RFloor(RDiv(daysDiff, RInt(365))), "years ago")

\* lines 106-120; now is new Date()
formatDate(dateString, now) ==
    IF dateString = undefined THEN DateText(undefined, "Unknown")
    ELSE LET daysDiff == RFloor(DaysSinceChange(now, dateString))
         IN IF REq(daysDiff, RInt(0)) THEN DateText(undefined, "Today")
            ELSE IF REq(daysDiff, RInt(1)) THEN DateText(undefined, "Yesterday")
            ELSE IF RLt(daysDiff, RInt(7)) THEN DateText(daysDiff, "days ago")
            ELSE IF RLt(daysDiff, RInt(30))
            THEN DateText(RFloor(RDiv(daysDiff, RInt(7))), "weeks ago")
            ELSE IF RLt(daysDiff, RInt(365))
            THEN DateText(RFloor(RDiv(daysDiff, RInt(30))), "months ago")
            ELSE DateText(RFloor(RDiv(daysDiff, RInt(365))), "years ago")

\* the same ranges with <= 5, <= 15 and <= 50
getFrequencyLabelInclusive(commits) ==
    IF commits = 0 THEN "No changes"
    ELSE IF commits = 1 THEN "Single change"
    ELSE IF commits <= 5 THEN "Low activity"
    ELSE IF commits <= 15 THEN "Moderate activity"
    ELSE IF commits <= 50 THEN "High activity"
    ELSE "Very high activity"

\* lines 127-134
getFrequencyLabel(commits) ==
    IF commits = 0 THEN "No changes"
    ELSE IF commits = 1 THEN "Single change"
    ELSE IF commits < 5 THEN "Low activity"
    ELSE IF commits < 15 THEN "Moderate activity"
    ELSE IF commits < 50 THEN "High activity"
    ELSE "Very high activity"

(***************************************************************************)
(* The colours of a building (canvas-visualizer.js lines 664-687, 745)     *)
(***************************************************************************)
\* the colour a '#rrggbb' text names to the canvas, as hue in degrees and
\* saturation and lightness in percent
HslOfRgb(rgb) ==
    LET max == SetMax({rgb[1], rgb[2], rgb[3]})
        min == SetMin({rgb[1], rgb[2], rgb[3]})
        d == max - min
        turn == IF d = 0 THEN RInt(0)
                ELSE IF max = rgb[1] THEN Rat(rgb[2] - rgb[3], d)
                ELSE IF max = rgb[2] THEN RAdd(Rat(rgb[3] - rgb[1], d), RInt(2))
                ELSE RAdd(Rat(rgb[1] - rgb[2], d), RInt(4))
        hue == RMul(RInt(60), turn)
    IN [hue |-> IF RLt(hue, RInt(0)) THEN RAdd(hue, RInt(360)) ELSE hue,
        saturation |-> IF d = 0 THEN RInt(0)
                       ELSE Rat(100 * d, 255 - Abs(max + min - 255)),
        lightness |-> Rat(100 * (max + min), 510)]

\* the same with the hovered branch tested before the selected branch
BuildingColorsHoverFirst(building, hovered, selected, manager, visualization, now) ==
    LET isHovered == hovered = building.id
        isSelected == selected = building.id
    IN IF isHovered
       THEN [baseColor |-> buildingHighlightColor, shades |-> null]
       ELSE IF isSelected
       THEN [baseColor |-> buildingSelectedColor, shades |-> null]
       ELSE IF building.gitMetadata # undefined /\ manager # null /\ showGitData
       THEN [baseColor |-> building.color,
             shades |-> getColorForBuilding(
                            manager, building.gitMetadata,
                            [useFrequency |-> visualization.showFrequency,
                             useAge |-> visualization.showAge,
                             colorBlindMode |-> visualization.colorBlindMode],
                            now)]
       ELSE [baseColor |-> building.color, shades |-> null]

\* lines 664-687: baseColor, and the colour data the shades are made of
\* (null where no shades are made); hovered and selected are the identities
\* in hoveredBuilding and selectedBuilding, manager is gitColorManager
BuildingColors(building, hovered, selected, manager, visualization, now) ==
    LET isHovered == hovered = building.id
        isSelected == selected = building.id
    IN IF isSelected
       THEN [baseColor |-> buildingSelectedColor, shades |-> null]
       ELSE IF isHovered
       THEN [baseColor |-> buildingHighlightColor, shades |-> null]
       ELSE IF building.gitMetadata # undefined /\ manager # null /\ showGitData
       THEN [baseColor |-> building.color,
             shades |-> getColorForBuilding(
                            manager, building.gitMetadata,
                            [useFrequency |-> visualization.showFrequency,
                             useAge |-> visualization.showAge,
                             colorBlindMode |-> visualization.colorBlindMode],
                            now)]
       ELSE [baseColor |-> building.color, shades |-> null]

\* line 745: ctx.fillStyle = shades ? shades.right : baseColor, where
\* shades.right is hsl(hue, saturation%, lightness%) (part_000 line 70)
RightFaceColor(colors) ==
    IF colors.shades # null THEN colors.shades ELSE HslOfRgb(colors.baseColor)

(***************************************************************************)
(* Inputs: JSON documents, canvas sizes, pointer positions                 *)
(***************************************************************************)
ClassLists(maxC, locs) == UNION {[1..n -> locs] : n \in 0..maxC}

MakePackage(p, locSeq) ==
    [name |-> p,
     classes |-> [c \in 1..Len(locSeq) |->
                    [name |-> <<p, c>>, linesOfCode |-> locSeq[c],
                     gitMetadata |-> undefined]]]

Datasets(maxP, maxC, locs) ==
    {[packages |-> [p \in 1..Len(ps) |-> MakePackage(p, ps[p])]] :
        ps \in UNION {[1..m -> ClassLists(maxC, locs)] : m \in 0..maxP}}

\* documents of the interactive session
UiMaxPackages == 1
UiMaxClasses == 1
UiDatasets == Datasets(UiMaxPackages, UiMaxClasses, LocValues)
\* a document of five packages with 1, 0, 2, 1 and 3 classes of 450 lines:
\* quartiles of two packages, the last quartile empty
QuadrantDataset ==
    [packages |->
        [p \in 1..5 |->
            MakePackage(p, [c \in 1..<<1, 0, 2, 1, 3>>[p] |-> 450])]]
\* documents of the load / re-layout session
CityDatasets == Datasets(MaxPackages, MaxClasses, LocValues) \cup {QuadrantDataset}
\* documents whose one class has git metadata with the given commit count
GitDataset(commits) ==
    [packages |->
        <<[name |-> 1,
           classes |-> <<[name |-> <<1, 1>>, linesOfCode |-> 450,
                          gitMetadata |-> [commits |-> RInt(commits),
                                           authors |-> RInt(2),
                                           lastModified |-> RInt(1900)]]>>]>>]
GitDatasets == {GitDataset(commits) : commits \in {0, 5, 50}}
\* a JSON document that has no packages array
NoPackagesDocument == [project |-> "demo"]
\* documents of the load session: data.json and the files selected
LoadDocuments == UiDatasets \cup GitDatasets \cup {NoPackagesDocument}
\* files selected in one session
MaxReads == 2
\* classes of a package that needs more than maxBuildingsPerRowCap columns
MaxWideClasses == 37
\* that package: classes of 50 and 450 lines in turn
WidePackage ==
    MakePackage(1, [c \in 1..MaxWideClasses |-> IF c % 2 = 0 THEN 450 ELSE 50])
\* packages the layout functions are applied to
LayoutPackages ==
    {WidePackage} \cup
    {MakePackage(1, ls) : ls \in ClassLists(MaxLayoutClasses, LayoutLocValues)}

\* container.clientWidth x container.clientHeight
CanvasSizes == {[width |-> 800, height |-> 600], [width |-> 60, height |-> 60]}
\* event.clientX - rect.left, event.clientY - rect.top
MousePoints == {<<400, 300>>, <<30, 30>>}
\* wheel events, pan gestures and checkbox changes of one session
MaxViewOps == 1

\* Math.exp(0.1) and Math.exp(-0.1) as the rationals ZoomNum/ZoomDen and back
ZoomNum == 21
ZoomDen == 19
minScaleNum == 1
minScaleDen == 10
maxScale == 5

\* arguments of the colour manager: the constructor's maxCommits, the commit
\* counts, Date.now() and the ages of lastModified in time units (a day in
\* the future, now, 6 hours, 7 days, 7 days 6 hours, 100, 365 and 400 days)
ColorMaxCommits == {0, 1, 5, 50}
ColorCommits == {0, 1, 2, 4, 5, 14, 15, 49, 50, 90}
ColorNows == {2000}
ColorAges == {-4, 0, 1, 28, 29, 400, 1460, 1600}
GitMetadataValues(now) ==
    {undefined} \cup
    [commits : {undefined} \cup {RInt(c) : c \in ColorCommits},
     lastModified : {undefined, NaN} \cup {RInt(now - a) : a \in ColorAges}]
\* ages of the dates formatDate is called with, in time units: a day in the
\* future, 0, 1, 2, 6, 7, 29, 30, 364, 365 and 800 days, some with hours
FormatDateAges == {-4, 0, 3, 4, 7, 8, 27, 28, 119, 120, 1459, 1460, 3200}
ColorOptions ==
    [useFrequency : BOOLEAN, useAge : BOOLEAN, colorBlindMode : BOOLEAN]
ColorInputs ==
    UNION {[maxCommits : ColorMaxCommits, gitMetadata : GitMetadataValues(now),
            options : ColorOptions, now : {RInt(now)}] : now \in ColorNows}

(***************************************************************************)
(* State                                                                   *)
(***************************************************************************)
VARIABLES
    projectData,        \* the loaded document, or null
    layoutStrategy,     \* CONFIG.layoutStrategy
    packages,           \* module-level array of package platforms
    buildings,          \* module-level array of building objects
    layoutGen,          \* number of processData calls so far (object identity)
    renderedView,       \* scale and offsets of the last render pass, or undefined
    scale,              \* CONFIG.scale
    offsetX,            \* CONFIG.offsetX
    offsetY,            \* CONFIG.offsetY
    canvas,             \* canvas.width, canvas.height
    hoveredBuilding,    \* identity of the hovered building object, or null
    selectedBuilding,   \* identity of the selected building object, or null
    isPanning, panStartX, panStartY, panOffsetX, panOffsetY,
    gitVisualization,   \* CONFIG.gitVisualization and CONFIG.colorBlindMode
    fetchState,         \* the fetch of ./data.json: pending, loaded, failed
    fileInputVisible,   \* display of #file-input-section
    hideTimers,         \* pending setTimeout callbacks that hide the section
    viewOps,            \* wheel events, pan gestures and checkbox changes so far
    layoutIn,           \* a package handed to the layout functions, or null
    layoutOut,          \* the city the layout functions return for it, or null
    colorIn,            \* arguments for the colour manager's methods, or null
    colorOut,           \* the last call of a method and what it returned, or null
    reads,              \* the FileReaders started so far, in the order started
    fileStatus,         \* what #file-status tells the user
    uncaught,           \* an event handler has ended with an uncaught error
    gitColorManager,    \* the GitMetadataColorManager, or null
    gitNormalization    \* CONFIG.gitNormalization, or undefined

vars == <<projectData, layoutStrategy, packages, buildings, layoutGen,
          renderedView, scale,
          offsetX, offsetY, canvas, hoveredBuilding, selectedBuilding,
          isPanning, panStartX, panStartY, panOffsetX, panOffsetY,
          gitVisualization, fetchState, fileInputVisible, hideTimers,
          viewOps, layoutIn, layoutOut, colorIn, colorOut,
          reads, fileStatus, uncaught, gitColorManager, gitNormalization>>

panVars == <<isPanning, panStartX, panStartY, panOffsetX, panOffsetY>>
viewVars == <<scale, offsetX, offsetY>>
cityVars == <<packages, buildings, layoutGen, renderedView>>
layoutVars == <<layoutIn, layoutOut>>
colorVars == <<colorIn, colorOut>>
loadVars == <<reads, fileStatus, uncaught>>
gitVars == <<gitColorManager, gitNormalization>>
uiVars == <<gitVisualization, fetchState, fileInputVisible, hideTimers>>

View == [scale |-> scale, offsetX |-> offsetX, offsetY |-> offsetY]

\* lines 57-70 and the DOMContentLoaded handler (73-96): resizeCanvas() has set
\* the canvas size, loadData() has started the fetch
InitProgram ==
    /\ projectData = null
    /\ layoutStrategy = "quadrant"
    /\ packages = <<>>
    /\ buildings = <<>>
    /\ layoutGen = 0
    /\ renderedView = undefined
    /\ scale = RInt(initialScale)
    /\ offsetX = RInt(initialOffset)
    /\ offsetY = RInt(initialOffset)
    /\ canvas \in CanvasSizes
    /\ hoveredBuilding = null
    /\ selectedBuilding = null
    /\ isPanning = FALSE
    /\ panStartX = 0
    /\ panStartY = 0
    /\ panOffsetX = RInt(0)
    /\ panOffsetY = RInt(0)
    /\ gitVisualization = [showFrequency |-> TRUE, showAge |-> TRUE,
                           showRecentGlow |-> TRUE, colorBlindMode |-> FALSE]
    /\ fetchState = "pending"
    /\ fileInputVisible = FALSE
    /\ hideTimers = 0
    /\ viewOps = 0
    /\ layoutOut = null
    /\ colorOut = null
    /\ reads = <<>>
    /\ fileStatus = "none"
    /\ uncaught = FALSE
    /\ gitColorManager = null
    /\ gitNormalization = undefined

Init == InitProgram /\ layoutIn = null /\ colorIn = null

(***************************************************************************)
(* calculateGitNormalization (lines 364-409).  Commit and author counts    *)
(* are whole numbers; a date is its time stamp.                            *)
(***************************************************************************)
\* line 164 (and what line 341 needs): the document has a packages array
HasPackages(data) == "packages" \in DOMAIN data

\* lines 371-373: the gitMetadata of the classes that have one
GitRecords(data) ==
    UNION {{data.packages[p].classes[c].gitMetadata :
               c \in DOMAIN data.packages[p].classes} :
           p \in DOMAIN data.packages} \ {undefined}

\* lines 376-382, for field commits or authors: Math.max from 0 on
MaxCount(gits, field) ==
    SetMax({0} \cup {g[field][1] : g \in {h \in gits : h[field] # undefined}})

\* lines 384-388: the time stamps of the records that have a date
GitDates(gits) ==
    {g.lastModified : g \in {h \in gits : h.lastModified # undefined}}

RECURSIVE RSetFold(_, _, _)
\* Math.min (least = TRUE) or Math.max over the set, from start on
RSetFold(S, start, least) ==
    IF S = {} THEN start
    ELSE LET x == CHOOSE y \in S : TRUE
         IN RSetFold(S \ {x},
                     IF least THEN RMin(start, x) ELSE RMax(start, x), least)

\* lines 394-399
GitNormalizationOf(gits, now) ==
    LET maxCommits == MaxCount(gits, "commits")
        maxAuthors == MaxCount(gits, "authors")
        oldestDate == RSetFold(GitDates(gits), <<1, 0>>, TRUE)
        newestDate == RSetFold(GitDates(gits), RInt(0), FALSE)
    IN [maxCommits |-> IF maxCommits = 0 THEN 1 ELSE maxCommits,
        maxAuthors |-> IF maxAuthors = 0 THEN 1 ELSE maxAuthors,
        oldestDate |-> IF oldestDate = <<1, 0>> THEN now ELSE oldestDate,
        newestDate |-> IF newestDate = RInt(0) \/ IsNaN(newestDate)
                       THEN now ELSE newestDate]

\* lines 393-408: CONFIG.gitNormalization and gitColorManager after the call;
\* old holds both as they were before it
calculateGitNormalization(data, now, old) ==
    IF GitRecords(data) = {} THEN old
    ELSE [gitNormalization |-> GitNormalizationOf(GitRecords(data), now),
          gitColorManager |->
              GitMetadataColorManager(
                  GitNormalizationOf(GitRecords(data), now).maxCommits)]

(***************************************************************************)
(* processData (lines 336-361) followed by renderCity()                    *)
(***************************************************************************)
\* the arrays are not emptied: the new objects are appended to the old ones
ProcessedCityAppend(data, strategy, old, gen) ==
    LayoutCity(data, strategy, old, gen)

\* lines 337-351: both arrays are emptied, then filled by the chosen strategy
ProcessedCity(data, strategy, old, gen) ==
    LayoutCity(data, strategy, EmptyCity, gen)

\* processData(data); renderCity();
ProcessAndRender(data) ==
    \E city \in {ProcessedCity(data, layoutStrategy',
                               [packages |-> packages, buildings |-> buildings],
                               layoutGen + 1)} :
      \E view \in {calculateViewTransform(city, canvas', View)} :
        /\ layoutGen' = layoutGen + 1
        /\ packages' = city.packages
        /\ scale' = view.scale
        /\ offsetX' = view.offsetX
        /\ offsetY' = view.offsetY
        /\ buildings' = city.buildings
        /\ renderedView' = renderCity(data, view, renderedView)
        /\ \E now \in ColorNows :
             \E git \in {calculateGitNormalization(
                             data, RInt(now),
                             [gitNormalization |-> gitNormalization,
                              gitColorManager |-> gitColorManager])} :
               /\ gitNormalization' = git.gitNormalization
               /\ gitColorManager' = git.gitColorManager

\* processData(data) of a document without a packages array: lines 337-338
\* empty both arrays, line 341 throws a TypeError
ProcessThrows ==
    /\ packages' = <<>>
    /\ buildings' = <<>>
    /\ UNCHANGED <<layoutGen, renderedView, viewVars, gitVars>>

\* renderCity() with the arrays and the view as they are
Rerender ==
    /\ renderedView' = renderCity(projectData, View, renderedView)
    /\ UNCHANGED buildings

(***************************************************************************)
(* Loading (lines 110-128, 160-185)                                        *)
(***************************************************************************)
\* the fetch resolves with a JSON document: lines 118-123; an error thrown
\* by processData is caught by lines 124-127
FetchThen(data) ==
    /\ fetchState = "pending"
    /\ projectData' = data
    /\ UNCHANGED <<layoutStrategy, canvas>>
    /\ IF HasPackages(data)
       THEN /\ layoutGen < MaxLayouts
            /\ ProcessAndRender(data)
            /\ fetchState' = "loaded"
            /\ UNCHANGED fileInputVisible
       ELSE /\ ProcessThrows
            /\ fetchState' = "failed"
            /\ fileInputVisible' = TRUE
    /\ UNCHANGED <<hoveredBuilding, selectedBuilding, panVars, gitVisualization,
                   hideTimers, viewOps, layoutVars, colorVars, loadVars>>

\* the catch handler without showFileInputPrompt()
FetchCatchSilent ==
    /\ fetchState = "pending"
    /\ fetchState' = "failed"
    /\ UNCHANGED <<projectData, layoutStrategy, cityVars, viewVars, canvas,
                   hoveredBuilding, selectedBuilding, panVars, gitVisualization,
                   fileInputVisible, hideTimers, viewOps, layoutVars, colorVars,
                   loadVars, gitVars>>

\* the fetch fails: lines 124-127, showFileInputPrompt
FetchCatch ==
    /\ fetchState = "pending"
    /\ fetchState' = "failed"
    /\ fileInputVisible' = TRUE
    /\ UNCHANGED <<projectData, layoutStrategy, cityVars, viewVars, canvas,
                   hoveredBuilding, selectedBuilding, panVars, gitVisualization,
                   hideTimers, viewOps, layoutVars, colorVars,
                   loadVars, gitVars>>

\* lines 162-184 for the parsed document data: it is accepted (lines 168-178)
\* or rejected (lines 164-166 and 180-184)
OnloadParsed(data) ==
    /\ UNCHANGED <<layoutStrategy, canvas>>
    /\ IF HasPackages(data)
       THEN /\ layoutGen < MaxLayouts
            /\ projectData' = data
            /\ ProcessAndRender(data)
            /\ fileStatus' = "loaded"
            /\ hideTimers' = hideTimers + 1
       ELSE /\ fileStatus' = "error"
            /\ UNCHANGED <<projectData, cityVars, viewVars, gitVars, hideTimers>>
    /\ UNCHANGED <<hoveredBuilding, selectedBuilding, panVars, gitVisualization,
                   fetchState, fileInputVisible, viewOps, layoutVars, colorVars,
                   uncaught>>

\* reader.onload of some FileReader, whichever change event started it
ReaderOnload(data) ==
    /\ OnloadParsed(data)
    /\ UNCHANGED reads

\* the change event of #dataFileInput with a file of content doc: lines
\* 150-158 and 193
FileChange(doc) ==
    /\ Len(reads) < MaxReads
    /\ reads' = Append(reads, [doc |-> doc, state |-> "reading"])
    /\ fileStatus' = "loading"
    /\ UNCHANGED <<projectData, layoutStrategy, cityVars, viewVars, canvas,
                   hoveredBuilding, selectedBuilding, panVars, gitVisualization,
                   fetchState, fileInputVisible, hideTimers, viewOps, layoutVars,
                   colorVars, uncaught, gitVars>>

\* reader.onload of the i-th FileReader: lines 160-185
ReaderOnloadOf(i) ==
    /\ i \in DOMAIN reads
    /\ reads[i].state = "reading"
    /\ OnloadParsed(reads[i].doc)
    /\ reads' = [reads EXCEPT ![i].state =
                    IF HasPackages(reads[i].doc) THEN "loaded" ELSE "rejected"]

\* reader.onerror of the i-th FileReader: lines 187-191
ReaderOnerror(i) ==
    /\ i \in DOMAIN reads
    /\ reads[i].state = "reading"
    /\ reads' = [reads EXCEPT ![i].state = "failed"]
    /\ fileStatus' = "error"
    /\ UNCHANGED <<projectData, layoutStrategy, cityVars, viewVars, canvas,
                   hoveredBuilding, selectedBuilding, panVars, gitVisualization,
                   fetchState, fileInputVisible, hideTimers, viewOps, layoutVars,
                   colorVars, uncaught, gitVars>>

\* the setTimeout callback of lines 176-178
HideFileInput ==
    /\ hideTimers > 0
    /\ hideTimers' = hideTimers - 1
    /\ fileInputVisible' = FALSE
    /\ UNCHANGED <<projectData, layoutStrategy, cityVars, viewVars, canvas,
                   hoveredBuilding, selectedBuilding, panVars, gitVisualization,
                   fetchState, viewOps, layoutVars, colorVars,
                   loadVars, gitVars>>

(***************************************************************************)
(* Layout strategy radios (lines 1069-1082), resize (lines 99-107)         *)
(***************************************************************************)
LayoutChange(value) ==
    /\ layoutStrategy' = value
    /\ UNCHANGED <<projectData, canvas>>
    /\ IF projectData = null
       THEN UNCHANGED <<cityVars, viewVars, gitVars, uncaught>>
       ELSE IF HasPackages(projectData)
       THEN /\ layoutGen < MaxLayouts
            /\ ProcessAndRender(projectData)
            /\ UNCHANGED uncaught
       ELSE /\ ProcessThrows
            /\ uncaught' = TRUE
    /\ UNCHANGED <<hoveredBuilding, selectedBuilding, panVars, gitVisualization,
                   fetchState, fileInputVisible, hideTimers, viewOps, layoutVars,
                   colorVars, reads, fileStatus>>

resizeCanvas(size) ==
    /\ canvas' = size
    /\ Rerender
    /\ UNCHANGED <<projectData, layoutStrategy, packages, layoutGen, viewVars,
                   hoveredBuilding, selectedBuilding, panVars, gitVisualization,
                   fetchState, fileInputVisible, hideTimers, viewOps, layoutVars, colorVars,
                   loadVars, gitVars>>


(***************************************************************************)
(* Pointer handlers (lines 788-910)                                        *)
(***************************************************************************)
\* lines 811-815
Contains(sb, mouseX, mouseY) ==
    /\ sb # undefined
    /\ RLe(sb.minX, RInt(mouseX)) /\ RLe(RInt(mouseX), sb.maxX)
    /\ RLe(sb.minY, RInt(mouseY)) /\ RLe(RInt(mouseY), sb.maxY)

\* the buildings whose stored box contains the pointer
HitSet(bs, rendered, mouseX, mouseY) ==
    {i \in 1..Len(bs) : Contains(ScreenBounds(bs[i], rendered), mouseX, mouseY)}

\* the loop stops at the first building whose box contains the pointer
FoundHoveredFirst(bs, rendered, mouseX, mouseY) ==
    LET hits == HitSet(bs, rendered, mouseX, mouseY)
    IN IF hits = {} THEN null
       ELSE bs[CHOOSE i \in hits : \A j \in hits : i <= j].id

\* lines 805-826: the loop keeps the first building of the largest depth
FoundHovered(bs, rendered, mouseX, mouseY) ==
    LET hits == HitSet(bs, rendered, mouseX, mouseY)
    IN IF hits = {} THEN null
       ELSE bs[CHOOSE i \in hits :
                 \A j \in hits :
                    \/ bs[i].y + bs[i].x > bs[j].y + bs[j].x
                    \/ bs[i].y + bs[i].x = bs[j].y + bs[j].x /\ i <= j].id

\* the pointer delta is added to the offset as it is now
PanOffsetFromCurrent(panOffset, offset, mouse, panStart) ==
    RAdd(offset, RInt(mouse - panStart))

\* lines 795-799: panOffset + delta
PanOffset(panOffset, offset, mouse, panStart) ==
    RAdd(panOffset, RInt(mouse - panStart))

handleMouseMove(mouseX, mouseY) ==
    IF isPanning
    THEN /\ offsetX' = PanOffset(panOffsetX, offsetX, mouseX, panStartX)
         /\ offsetY' = PanOffset(panOffsetY, offsetY, mouseY, panStartY)
         /\ scale' = scale
         /\ renderedView' = renderCity(projectData,
                                       [scale |-> scale, offsetX |-> offsetX',
                                        offsetY |-> offsetY'], renderedView)
         /\ UNCHANGED <<projectData, layoutStrategy, packages, buildings, layoutGen, canvas,
                        hoveredBuilding, selectedBuilding, panVars, uiVars,
                        viewOps, layoutVars, colorVars,
                   loadVars, gitVars>>
    ELSE /\ hoveredBuilding' = FoundHovered(buildings, renderedView, mouseX, mouseY)
         /\ IF hoveredBuilding' # hoveredBuilding
            THEN Rerender
            ELSE UNCHANGED <<buildings, renderedView>>
         /\ UNCHANGED <<projectData, layoutStrategy, packages, layoutGen, canvas,
                        viewVars, selectedBuilding, panVars, uiVars, viewOps,
                        layoutVars, colorVars,
                   loadVars, gitVars>>

\* a click with nothing hovered clears the selection
ClickSelectsAlways == hoveredBuilding

\* lines 842-843: the building a click leaves selected
ClickSelects ==
    IF hoveredBuilding # null THEN hoveredBuilding ELSE selectedBuilding

handleClick ==
    /\ selectedBuilding' = ClickSelects
    /\ IF hoveredBuilding # null THEN Rerender
                                  ELSE UNCHANGED <<buildings, renderedView>>
    /\ UNCHANGED <<projectData, layoutStrategy, packages, layoutGen, canvas,
                   viewVars, hoveredBuilding, panVars, uiVars, viewOps, layoutVars, colorVars,
                   loadVars, gitVars>>

\* lines 858-860: Math.exp(wheel * zoomIntensity)
ZoomStep(wheel) == IF wheel = 1 THEN Rat(ZoomNum, ZoomDen) ELSE Rat(ZoomDen, ZoomNum)

\* line 870
ClampScale(newScale) ==
    RMax(Rat(minScaleNum, minScaleDen), RMin(RInt(maxScale), newScale))

\* lines 850-877; wheel is 1 for deltaY < 0 and -1 otherwise
handleWheel(wheel, mouseX, mouseY) ==
    LET zoom == ZoomStep(wheel)
        worldX == RDiv(RSub(RInt(mouseX), offsetX), scale)
        worldY == RDiv(RSub(RInt(mouseY), offsetY), scale)
        newScale == RMul(scale, zoom)
        clamped == ClampScale(newScale)
    IN /\ viewOps < MaxViewOps
       /\ viewOps' = viewOps + 1
       /\ scale' = clamped
       /\ offsetX' = RSub(RInt(mouseX), RMul(worldX, clamped))
       /\ offsetY' = RSub(RInt(mouseY), RMul(worldY, clamped))
       /\ renderedView' = renderCity(projectData,
                                     [scale |-> scale', offsetX |-> offsetX',
                                      offsetY |-> offsetY'], renderedView)
       /\ UNCHANGED <<projectData, layoutStrategy, packages, buildings, layoutGen, canvas,
                      hoveredBuilding, selectedBuilding, panVars, uiVars, layoutVars, colorVars,
                   loadVars, gitVars>>

\* lines 880-894; button 1 is the middle button
handleMouseDown(button, mouseX, mouseY) ==
    IF button = 1
    THEN /\ viewOps < MaxViewOps
         /\ viewOps' = viewOps + 1
         /\ isPanning' = TRUE
         /\ panStartX' = mouseX
         /\ panStartY' = mouseY
         /\ panOffsetX' = offsetX
         /\ panOffsetY' = offsetY
         /\ UNCHANGED <<projectData, layoutStrategy, cityVars, canvas, viewVars,
                        hoveredBuilding, selectedBuilding, uiVars, layoutVars, colorVars,
                   loadVars, gitVars>>
    ELSE UNCHANGED vars

\* lines 897-902
handleMouseUp(button) ==
    IF button = 1
    THEN /\ isPanning' = FALSE
         /\ UNCHANGED <<projectData, layoutStrategy, cityVars, canvas, viewVars,
                        hoveredBuilding, selectedBuilding, panStartX, panStartY,
                        panOffsetX, panOffsetY, uiVars, viewOps, layoutVars, colorVars,
                   loadVars, gitVars>>
    ELSE UNCHANGED vars

\* lines 905-910
handleMouseLeave ==
    /\ isPanning' = (IF isPanning THEN FALSE ELSE isPanning)
    /\ UNCHANGED <<projectData, layoutStrategy, cityVars, canvas, viewVars,
                   hoveredBuilding, selectedBuilding, panStartX, panStartY,
                   panOffsetX, panOffsetY, uiVars, viewOps, layoutVars, colorVars,
                   loadVars, gitVars>>

\* setupGitControls, lines 1022-1055: one change handler per checkbox
ToggleChange(field, checked) ==
    /\ viewOps < MaxViewOps
    /\ viewOps' = viewOps + 1
    /\ gitVisualization' = [gitVisualization EXCEPT ![field] = checked]
    /\ Rerender
    /\ UNCHANGED <<projectData, layoutStrategy, packages, layoutGen, canvas,
                   viewVars, hoveredBuilding, selectedBuilding, panVars,
                   fetchState, fileInputVisible, hideTimers, layoutVars, colorVars,
                   loadVars, gitVars>>

(***************************************************************************)
(* The interactive session: loads, layout radios, resizes, pointer and     *)
(* wheel events, checkboxes.  The failing fetch and the timer that hides   *)
(* the file prompt are part of the load session below.                     *)
(***************************************************************************)
Next ==
    \/ \E data \in UiDatasets : FetchThen(data)
    \/ \E data \in UiDatasets : ReaderOnload(data)
    \/ \E value \in LayoutStrategies : LayoutChange(value)
    \/ \E size \in CanvasSizes : resizeCanvas(size)
    \/ \E pt \in MousePoints : handleMouseMove(pt[1], pt[2])
    \/ handleClick
    \/ \E wheel \in {1, -1}, pt \in MousePoints : handleWheel(wheel, pt[1], pt[2])
    \/ \E button \in {0, 1}, pt \in MousePoints : handleMouseDown(button, pt[1], pt[2])
    \/ \E button \in {0, 1} : handleMouseUp(button)
    \/ handleMouseLeave
    \/ \E field \in DOMAIN gitVisualization, checked \in BOOLEAN :
          ToggleChange(field, checked)

Spec == Init /\ [][Next]_vars

(***************************************************************************)
(* Loads and re-layouts only, over the larger documents                    *)
(***************************************************************************)
NextCity ==
    \/ \E data \in CityDatasets : FetchThen(data)
    \/ FetchCatch
    \/ \E data \in CityDatasets : ReaderOnload(data)
    \/ HideFileInput
    \/ \E value \in LayoutStrategies : LayoutChange(value)

CitySpec == Init /\ [][NextCity]_vars

(***************************************************************************)
(* The layout functions applied to one package                             *)
(***************************************************************************)
InitLayout == InitProgram /\ layoutIn \in LayoutPackages /\ colorIn = null

\* processData's layout (lines 341-351) of the document {packages: [layoutIn]}
ApplyLayout(strategy) ==
    /\ layoutIn # null
    /\ layoutOut = null
    /\ layoutOut' = LayoutCity([packages |-> <<layoutIn>>], strategy, EmptyCity, 1)
    /\ UNCHANGED <<projectData, layoutStrategy, cityVars, viewVars, canvas,
                   hoveredBuilding, selectedBuilding, panVars, uiVars, viewOps,
                   layoutIn, colorVars, loadVars, gitVars>>

NextLayout == \E strategy \in LayoutStrategies : ApplyLayout(strategy)

LayoutSpec == InitLayout /\ [][NextLayout]_vars

(***************************************************************************)
(* Zooming and panning: one load, resizes, pointer and wheel events.  The   *)
(* canvas may be exactly as wide and high as the two fit paddings together *)
(* and the pointer may be on its centre.                                   *)
(***************************************************************************)
ViewCanvasSizes == CanvasSizes \cup {[width |-> 100, height |-> 100]}
ViewMousePoints == MousePoints \cup {<<50, 50>>}

NextView ==
    \/ \E data \in UiDatasets : FetchThen(data)
    \/ \E size \in ViewCanvasSizes : resizeCanvas(size)
    \/ \E pt \in ViewMousePoints : handleMouseMove(pt[1], pt[2])
    \/ handleClick
    \/ \E wheel \in {1, -1}, pt \in ViewMousePoints : handleWheel(wheel, pt[1], pt[2])
    \/ \E button \in {0, 1}, pt \in ViewMousePoints :
          handleMouseDown(button, pt[1], pt[2])
    \/ \E button \in {0, 1} : handleMouseUp(button)
    \/ handleMouseLeave

ViewSpec == Init /\ [][NextView]_vars

(***************************************************************************)
(* Hovering: loads of documents with several buildings, re-layouts and     *)
(* pointer moves over a grid of positions.                                 *)
(***************************************************************************)
HoverPoints == {<<x, y>> : x \in {250, 400, 550}, y \in {150, 300, 450}}

NextHover ==
    \/ \E data \in CityDatasets : FetchThen(data)
    \/ \E value \in LayoutStrategies : LayoutChange(value)
    \/ \E pt \in HoverPoints : handleMouseMove(pt[1], pt[2])

HoverSpec == Init /\ [][NextHover]_vars

(***************************************************************************)
(* The colour manager's methods applied to one building's git metadata, as *)
(* drawBuilding (lines 676-686, 709-710) and the info panel (line 924)     *)
(* call them.                                                              *)
(***************************************************************************)
InitColor == InitProgram /\ layoutIn = null /\ colorIn \in ColorInputs

ColorFrame ==
    UNCHANGED <<projectData, layoutStrategy, cityVars, viewVars, canvas,
                hoveredBuilding, selectedBuilding, panVars, uiVars, viewOps,
                layoutVars, colorIn, loadVars, gitVars>>

\* gitColorManager.getColorForBuilding(building.gitMetadata, {...})
CallGetColorForBuilding ==
    /\ colorOut' =
          [call |-> "getColorForBuilding",
           result |-> getColorForBuilding(
                          GitMetadataColorManager(colorIn.maxCommits),
                          colorIn.gitMetadata, colorIn.options, colorIn.now)]
    /\ ColorFrame

\* gitColorManager.isRecent(building.gitMetadata, 7)
CallIsRecent ==
    /\ colorOut' =
          [call |-> "isRecent",
           result |-> isRecent(colorIn.gitMetadata, 7, colorIn.now)]
    /\ ColorFrame

\* git.commits || 0
CommitsOrZero(git) == IF git.commits = undefined THEN 0 ELSE git.commits[1]

\* gitColorManager.getFrequencyLabel(git.commits || 0) of a building that has
\* git metadata
CallGetFrequencyLabel ==
    /\ colorIn.gitMetadata # undefined
    /\ colorOut' =
          [call |-> "getFrequencyLabel",
           result |-> getFrequencyLabel(CommitsOrZero(colorIn.gitMetadata))]
    /\ ColorFrame

\* the building drawBuilding is called with: lines 310-322 with the git
\* metadata of colorIn
ColorBuilding ==
    [id |-> <<1, 1>>, gitMetadata |-> colorIn.gitMetadata,
     color |-> buildingBaseColor]

\* CONFIG.gitVisualization and CONFIG.colorBlindMode as drawBuilding reads
\* them (lines 678-682)
ColorVisualization ==
    [showFrequency |-> colorIn.options.useFrequency,
     showAge |-> colorIn.options.useAge,
     colorBlindMode |-> colorIn.options.colorBlindMode]

\* drawBuilding(building), lines 664-687 and 745, first call: hovered and
\* selected are hoveredBuilding and selectedBuilding, manager is
\* gitColorManager
CallDrawBuilding(hovered, selected, manager) ==
    /\ colorOut = null
    /\ colorOut' =
          [call |-> "drawBuilding", hovered |-> hovered, selected |-> selected,
           manager |-> manager,
           result |-> RightFaceColor(
                          BuildingColors(ColorBuilding, hovered, selected,
                                         manager, ColorVisualization,
                                         colorIn.now))]
    /\ ColorFrame

\* gitColorManager.formatDate(git.lastModified): line 935, first call
CallFormatDate(dateString) ==
    /\ colorOut = null
    /\ colorOut' = [call |-> "formatDate", dateString |-> dateString,
                    result |-> formatDate(dateString, colorIn.now)]
    /\ ColorFrame

NextColor ==
    \/ CallGetColorForBuilding
    \/ CallIsRecent
    \/ CallGetFrequencyLabel
    \/ \E dateString \in {undefined, NaN} \cup
                          {RInt(colorIn.now[1] - a) : a \in FormatDateAges} :
          CallFormatDate(dateString)
    \/ \E hovered \in {null, <<1, 1>>}, selected \in {null, <<1, 1>>},
          manager \in {null, GitMetadataColorManager(colorIn.maxCommits)} :
          CallDrawBuilding(hovered, selected, manager)

ColorSpec == InitColor /\ [][NextColor]_vars

(***************************************************************************)
(* The numbers made of one package's classes, where a class record may     *)
(* have no linesOfCode: cls.linesOfCode is then undefined, and undefined   *)
(* in arithmetic is NaN.                                                   *)
(***************************************************************************)
\* cls.linesOfCode as the Number the arithmetic of lines 210, 217 and 304
\* works on
LinesOfCodeNumber(cls) ==
    IF "linesOfCode" \in DOMAIN cls THEN RInt(cls.linesOfCode) ELSE NaN

RECURSIVE MassFrom(_, _, _)
\* line 210: reduce((sum, cls) => sum + cls.linesOfCode, 0) from class i on
MassFrom(classes, i, sum) ==
    IF i > Len(classes) THEN sum
    ELSE MassFrom(classes, i + 1, RAdd(sum, LinesOfCodeNumber(classes[i])))

\* line 210
PackageMassNumber(pkg) == MassFrom(pkg.classes, 1, RInt(0))

\* lines 217-229: Math.sqrt, Math.max and Math.min of NaN are NaN
FootprintNumber(linesOfCode) ==
    IF IsNaN(linesOfCode) THEN [width |-> NaN, depth |-> NaN]
    ELSE [width |-> RInt(calculateBuildingFootprint(linesOfCode[1]).width),
          depth |-> RInt(calculateBuildingFootprint(linesOfCode[1]).depth)]

\* lines 302-305: Math.max(CONFIG.minBuildingHeight, NaN) is NaN
HeightNumber(linesOfCode) ==
    IF IsNaN(linesOfCode) THEN NaN ELSE RInt(BuildingHeight(linesOfCode[1]))

\* lines 302-320: width, depth and height of the building of class cls
BuildingNumbers(cls) ==
    [width |-> FootprintNumber(LinesOfCodeNumber(cls)).width,
     depth |-> FootprintNumber(LinesOfCodeNumber(cls)).depth,
     height |-> HeightNumber(LinesOfCodeNumber(cls))]

\* a class record with linesOfCode (loc is a number) or without (undefined)
ClassRecord(name, loc) ==
    IF loc = undefined THEN [name |-> name, gitMetadata |-> undefined]
    ELSE [name |-> name, linesOfCode |-> loc[1], gitMetadata |-> undefined]

MeasureLocs == {undefined, RInt(0), RInt(1), RInt(450)}
MeasurePackages ==
    {[name |-> 1, classes |-> [c \in 1..Len(ls) |-> ClassRecord(<<1, c>>, ls[c])]] :
        ls \in UNION {[1..n -> MeasureLocs] : n \in 1..MaxLayoutClasses}}

InitMeasure == InitProgram /\ layoutIn \in MeasurePackages /\ colorIn = null

MeasureFrame ==
    UNCHANGED <<projectData, layoutStrategy, cityVars, viewVars, canvas,
                hoveredBuilding, selectedBuilding, panVars, uiVars, viewOps,
                layoutIn, colorVars, loadVars, gitVars>>

\* line 343: mass: calculatePackageMass(pkg)
CallCalculatePackageMass ==
    /\ layoutOut' = [call |-> "calculatePackageMass",
                     result |-> PackageMassNumber(layoutIn)]
    /\ MeasureFrame

\* lines 301-322 for the c-th class of the package
CreateBuilding(c) ==
    /\ c \in DOMAIN layoutIn.classes
    /\ layoutOut' = [call |-> "building", class |-> c,
                     result |-> BuildingNumbers(layoutIn.classes[c])]
    /\ MeasureFrame

NextMeasure ==
    \/ CallCalculatePackageMass
    \/ \E c \in 1..MaxLayoutClasses : CreateBuilding(c)

MeasureSpec == InitMeasure /\ [][NextMeasure]_vars

(***************************************************************************)
(* The load session: the fetch of data.json and the files selected, each   *)
(* read by its own FileReader and completing in any order; documents with  *)
(* and without a packages array and with and without git metadata;         *)
(* re-layouts and resizes.                                                 *)
(***************************************************************************)
NextLoad ==
    \/ \E doc \in LoadDocuments : FetchThen(doc)
    \/ FetchCatch
    \/ \E doc \in LoadDocuments : FileChange(doc)
    \/ \E i \in 1..MaxReads : ReaderOnloadOf(i)
    \/ \E i \in 1..MaxReads : ReaderOnerror(i)
    \/ HideFileInput
    \/ \E value \in LayoutStrategies : LayoutChange(value)
    \/ \E size \in CanvasSizes : resizeCanvas(size)

LoadSpec == Init /\ [][NextLoad]_vars

(***************************************************************************)
(* Layout properties                                                       *)
(***************************************************************************)
\* the footprint rectangles of a and b share interior points
Overlap(a, b) ==
    /\ a.x < b.x + b.width /\ b.x < a.x + a.width
    /\ a.y < b.y + b.depth /\ b.y < a.y + a.depth

\* the classes of the package handed to the layout functions
LayoutLocs == {layoutIn.classes[c].linesOfCode : c \in 1..Len(layoutIn.classes)}

\* C1: whatever the linesOfCode values of a package's classes (all zero, one
\* 100000-line class among 1-line classes, ...), no two buildings that
\* calculatePackageLayout and calculateBuildingFootprint place for the package
\* have overlapping footprint rectangles.
C1_NoBuildingOverlap ==
    layoutOut # null =>
        \A i, j \in 1..Len(layoutOut.buildings) :
            i # j => ~Overlap(layoutOut.buildings[i], layoutOut.buildings[j])

\* a 100000-line class among 1-line classes, packed in two rows
C1_Witness ==
    /\ layoutOut # null
    /\ LayoutLocs = {1, 100000}
    /\ Len(layoutOut.buildings) = MaxLayoutClasses
    /\ \E i, j \in 1..Len(layoutOut.buildings) :
          layoutOut.buildings[i].y # layoutOut.buildings[j].y

\* C2: after processData, under either strategy and for any document, no two
\* package platforms have overlapping footprint rectangles, and no two
\* buildings of different packages overlap.
C2_NoPackageOverlap ==
    /\ \A i, j \in 1..Len(packages) : i # j => ~Overlap(packages[i], packages[j])
    /\ \A i, j \in 1..Len(buildings) :
          buildings[i].packageName # buildings[j].packageName
              => ~Overlap(buildings[i], buildings[j])

\* the buildings the platform p owns
OwnedBy(city, p) ==
    {city.buildings[i] : i \in {k \in 1..Len(city.buildings) :
                                   \E n \in 1..Len(p.buildings) :
                                       p.buildings[n] = city.buildings[k].id}}

\* C3: after a layout every building lies inside the platform of the package
\* that owns it, at least packagePadding away from each of its four edges.
C3_BuildingsInsidePackage ==
    layoutOut # null =>
        \A n \in 1..Len(layoutOut.packages) :
            LET p == layoutOut.packages[n]
            IN \A b \in OwnedBy(layoutOut, p) :
                  /\ p.x + packagePadding <= b.x
                  /\ b.x + b.width <= p.x + p.width - packagePadding
                  /\ p.y + packagePadding <= b.y
                  /\ b.y + b.depth <= p.y + p.depth - packagePadding

\* a package of buildings of different footprints, packed in two rows, whose
\* platform does not start at the origin
C3_Witness ==
    /\ layoutOut # null
    /\ Len(layoutOut.buildings) = MaxLayoutClasses
    /\ layoutOut.packages[1].x > 0
    /\ Cardinality(OwnedBy(layoutOut, layoutOut.packages[1])) = MaxLayoutClasses
    /\ \E i, j \in 1..Len(layoutOut.buildings) :
          /\ layoutOut.buildings[i].width # layoutOut.buildings[j].width
          /\ layoutOut.buildings[i].y # layoutOut.buildings[j].y

\* C4: the building of a class is max(minBuildingHeight, 0.8 x linesOfCode)
\* tall and its width and depth lie in [20, 80]; all three are positive, a
\* class of 0 lines gives 20 x 20 x 10, classes of 150 and 85 lines give the
\* heights 120 and 68.
C4_BuildingDimensions ==
    layoutOut # null =>
        \A i \in 1..Len(layoutOut.buildings) :
            LET b == layoutOut.buildings[i]
            IN /\ locToHeightScaleDen * b.height =
                      Max2(locToHeightScaleDen * minBuildingHeight,
                           locToHeightScaleNum * b.linesOfCode)
               /\ minBuildingWidth <= b.width /\ b.width <= maxBuildingWidth
               /\ minBuildingDepth <= b.depth /\ b.depth <= maxBuildingDepth
               /\ b.width > 0 /\ b.depth > 0 /\ b.height > 0
               /\ b.linesOfCode = 0 => b.width = 20 /\ b.depth = 20 /\ b.height = 10
               /\ b.linesOfCode = 150 => b.height = 120
               /\ b.linesOfCode = 85 => b.height = 68

\* the buildings of classes of 0, 85 and 150 lines
C4_Witness ==
    /\ layoutOut # null
    /\ LayoutLocs = {0, 85, 150}
    /\ Len(layoutOut.buildings) = 3

(***************************************************************************)
(* Re-layout and view-fit properties                                       *)
(***************************************************************************)
City == [packages |-> packages, buildings |-> buildings]

\* where the platforms and buildings of a city stand, whatever the objects
Placements(city) ==
    [packages |-> [i \in 1..Len(city.packages) |->
                     LET p == city.packages[i]
                     IN <<p.name, p.x, p.y, p.z, p.width, p.depth, p.height,
                          Len(p.buildings)>>],
     buildings |-> [i \in 1..Len(city.buildings) |->
                      LET b == city.buildings[i]
                      IN <<b.className, b.packageName, b.linesOfCode,
                           b.x, b.y, b.z, b.width, b.depth, b.height>>]]

\* C5: after any sequence of loads and strategy switches the placements are
\* those of a fresh processData of the current document under the current
\* strategy: the layout is deterministic and nothing of an earlier layout
\* survives a re-layout.
C5_PlacementsAreFresh ==
    IF projectData = null
    THEN packages = <<>> /\ buildings = <<>>
    ELSE Placements(City) =
             Placements(LayoutCity(projectData, layoutStrategy, EmptyCity, 0))

\* a document with buildings, laid out a second time, under the grid strategy
C5_Witness ==
    /\ layoutGen = MaxLayouts
    /\ layoutStrategy = "grid"
    /\ projectData # null
    /\ Len(packages) = MaxPackages
    /\ Len(buildings) > Len(packages)

\* C6: after calculateViewTransform on a non-empty city, for any canvas size,
\* the scale is positive and is min(width fit, height fit, 1.5), the 8
\* projected corners of the city's bounding box lie inside the canvas inset by
\* the padding of 50, and the projected box is centred on the canvas centre.
C6_AutoFitInsideCanvas ==
    (packages # <<>> \/ buildings # <<>>) =>
        LET corners == CityCorners(City)
            xs == ToSeq([k \in 1..8 |-> corners[k].x])
            ys == ToSeq([k \in 1..8 |-> corners[k].y])
            widthFit == RDiv(RInt(canvas.width - 2 * fitPadding),
                             RSub(RMaxOf(xs), RMinOf(xs)))
            heightFit == RDiv(RInt(canvas.height - 2 * fitPadding),
                              RSub(RMaxOf(ys), RMinOf(ys)))
            sx == ToSeq([k \in 1..8 |-> RAdd(RMul(corners[k].x, scale), offsetX)])
            sy == ToSeq([k \in 1..8 |-> RAdd(RMul(corners[k].y, scale), offsetY)])
        IN /\ RLt(RInt(0), scale)
           /\ scale = RMin(RMin(widthFit, heightFit),
                           Rat(maxFitScaleNum, maxFitScaleDen))
           /\ \A k \in 1..8 :
                 /\ RLe(RInt(fitPadding), sx[k])
                 /\ RLe(sx[k], RInt(canvas.width - fitPadding))
                 /\ RLe(RInt(fitPadding), sy[k])
                 /\ RLe(sy[k], RInt(canvas.height - fitPadding))
           /\ RAdd(RMinOf(sx), RMaxOf(sx)) = RInt(canvas.width)
           /\ RAdd(RMinOf(sy), RMaxOf(sy)) = RInt(canvas.height)

\* C8: when the document has no packages, calculateViewTransform leaves scale,
\* offsetX and offsetY as they were and divides by nothing, so not by zero.
C8_EmptyCityKeepsView ==
    [][(layoutGen' # layoutGen /\ packages' = <<>> /\ buildings' = <<>>)
          => /\ scale' = scale /\ offsetX' = offsetX /\ offsetY' = offsetY
             /\ \A d \in FitDivisors(City') : d # RInt(0)]_vars

\* a document without packages was loaded over a fitted city: the fitted view
\* is still there
C8_Witness ==
    /\ layoutGen = MaxLayouts
    /\ projectData # null
    /\ packages = <<>> /\ buildings = <<>>
    /\ scale # RInt(initialScale)

(***************************************************************************)
(* Interaction properties                                                  *)
(***************************************************************************)
\* C7: the auto-fit view is recomputed on canvas resize, document load and
\* layout-strategy change: right after each of them scale and offsets are the
\* auto-fit values for the current placements and canvas size; between such
\* events only manual zoom and pan change them.
C7_AutoFitOnEveryEvent ==
    [][/\ (canvas' # canvas \/ layoutGen' # layoutGen)
            => View' = calculateViewTransform(City', canvas', View)
       /\ (canvas' = canvas /\ layoutGen' = layoutGen /\ View' # View)
            => (viewOps' # viewOps \/ isPanning)]_vars

\* the identities of the building objects of the current placements
CurrentBuildings == {buildings[i].id : i \in 1..Len(buildings)}

\* C9: after a document reload or a layout-strategy change the hovered and
\* the selected building are both cleared: neither refers to a building, in
\* particular not to one of the discarded placements, so a click right after
\* the reload selects nothing.
C9_ReloadClearsHoverAndSelection ==
    [][/\ (layoutGen' # layoutGen \/ layoutStrategy' # layoutStrategy)
            => hoveredBuilding' = null /\ selectedBuilding' = null
       /\ selectedBuilding' # selectedBuilding
            => selectedBuilding' \in CurrentBuildings]_vars

\* C10: a click while a building is hovered makes that building the selected
\* one; pointer moves, wheel zoom, panning, checkbox changes, resizes and
\* clicks with nothing hovered leave the selected building as it is: it
\* changes only by a click while a building is hovered.
C10_SelectionFollowsClicks ==
    [][/\ (handleClick /\ hoveredBuilding # null)
            => selectedBuilding' = hoveredBuilding
       /\ selectedBuilding' # selectedBuilding
            => handleClick /\ hoveredBuilding # null
                           /\ selectedBuilding' = hoveredBuilding]_vars

\* a building was selected by a click, the pointer has left it, and a wheel
\* event, a pan gesture or a checkbox change has happened
C10_Witness ==
    /\ selectedBuilding \in CurrentBuildings
    /\ hoveredBuilding = null
    /\ viewOps = MaxViewOps

(***************************************************************************)
(* Zoom and pan properties                                                 *)
(***************************************************************************)
\* C11: after every wheel event, whatever is hovered, selected or panned, the
\* scale is the previous scale times one exponential step up or down, clamped
\* to [0.1, 5]; the point under the pointer is fixed, (pointer - offset) /
\* scale being the same before and after; hover and selection are unchanged.
C11_WheelZoomsAboutPointer ==
    [][\A wheel \in {1, -1}, pt \in ViewMousePoints :
          handleWheel(wheel, pt[1], pt[2]) =>
             /\ scale' = RMax(Rat(minScaleNum, minScaleDen),
                              RMin(RInt(maxScale), RMul(scale, ZoomStep(wheel))))
             /\ REq(RDiv(RSub(RInt(pt[1]), offsetX'), scale'),
                    RDiv(RSub(RInt(pt[1]), offsetX), scale))
             /\ REq(RDiv(RSub(RInt(pt[2]), offsetY'), scale'),
                    RDiv(RSub(RInt(pt[2]), offsetY), scale))
             /\ hoveredBuilding' = hoveredBuilding
             /\ selectedBuilding' = selectedBuilding]_vars

\* the step is a pointer move, a press of the middle button, its release
MoveStep(pt) == handleMouseMove(pt[1], pt[2])
PressStep(pt) == handleMouseDown(1, pt[1], pt[2])
ReleaseStep == handleMouseUp(1) \/ handleMouseLeave

\* C12: from a press of the middle button until its release or the pointer's
\* leaving the canvas, every pointer move sets the offset to the offset at
\* the press plus (pointer - pointer at the press) and leaves scale, hover and
\* selection alone; after the release or the leave, pointer moves no longer
\* change the offset.
C12_PanFollowsPointer ==
    [][/\ \A pt \in ViewMousePoints :
             PressStep(pt) => /\ isPanning'
                              /\ panOffsetX' = offsetX /\ panOffsetY' = offsetY
                              /\ panStartX' = pt[1] /\ panStartY' = pt[2]
       /\ <<panStartX, panStartY, panOffsetX, panOffsetY>>' #
              <<panStartX, panStartY, panOffsetX, panOffsetY>>
            => \E pt \in ViewMousePoints : PressStep(pt)
       /\ (isPanning /\ ~isPanning') => ReleaseStep
       /\ ReleaseStep => ~isPanning'
       /\ \A pt \in ViewMousePoints :
             MoveStep(pt) =>
                IF isPanning
                THEN /\ offsetX' = RAdd(panOffsetX, RInt(pt[1] - panStartX))
                     /\ offsetY' = RAdd(panOffsetY, RInt(pt[2] - panStartY))
                     /\ scale' = scale
                     /\ hoveredBuilding' = hoveredBuilding
                     /\ selectedBuilding' = selectedBuilding
                ELSE offsetX' = offsetX /\ offsetY' = offsetY]_vars

\* the city is being dragged away from where it was at the press, with a
\* building hovered and a building selected
C12_Witness ==
    /\ isPanning
    /\ offsetX # panOffsetX
    /\ \E pt \in ViewMousePoints : offsetX = RAdd(panOffsetX, RInt(pt[1] - panStartX))
    /\ hoveredBuilding # null
    /\ selectedBuilding # null

(***************************************************************************)
(* Hover and draw order properties                                         *)
(***************************************************************************)
\* the buildings whose box of the last render pass contains the point pt
BoxesAt(pt) ==
    {b \in {buildings[i] : i \in 1..Len(buildings)} :
        /\ renderedView # undefined
        /\ LET sb == ScreenBoundsOf(b, renderedView)
           IN /\ RLe(sb.minX, RInt(pt[1])) /\ RLe(RInt(pt[1]), sb.maxX)
              /\ RLe(sb.minY, RInt(pt[2])) /\ RLe(RInt(pt[2]), sb.maxY)}

\* C13: after a pointer move while not panning, the hovered building is the
\* one of the largest depth key x + y among the buildings whose last-rendered
\* screen box contains the pointer; nothing is hovered when no box does.
C13_HoverIsFrontmostHit ==
    [][\A pt \in HoverPoints :
          (~isPanning /\ handleMouseMove(pt[1], pt[2])) =>
              \E hits \in {BoxesAt(pt)} :
                  IF hits = {}
                  THEN hoveredBuilding' = null
                  ELSE \E b \in hits :
                          /\ hoveredBuilding' = b.id
                          /\ \A c \in hits : c.x + c.y <= b.x + b.y]_vars

\* the boxes of buildings of different depth keys contain one position, and
\* the hovered building is the front one, which is not the first of the array
C13_Witness ==
    \E pt \in HoverPoints :
        \E b, c \in BoxesAt(pt) :
            /\ c.x + c.y < b.x + b.y
            /\ \A d \in BoxesAt(pt) : d.x + d.y <= b.x + b.y
            /\ hoveredBuilding = b.id
            /\ c.id[2] < b.id[2]

\* position of the object item in the list s
IndexIn(s, item) == CHOOSE i \in 1..Len(s) : s[i] = item

\* C14: a render pass draws every platform and every building exactly once,
\* in one list of non-decreasing depth key x + y of the object's origin;
\* objects of equal keys are drawn in insertion order (platforms in placement
\* order, then buildings in placement order).
C14_DrawOrder ==
    projectData # null =>
        LET all == AllObjects(City)
            dl == DrawList(City)
        IN /\ Len(dl) = Len(all)
           /\ \A i \in 1..Len(all) :
                 Cardinality({k \in 1..Len(dl) : dl[k] = all[i]}) = 1
           /\ \A j, k \in 1..Len(dl) :
                 j < k =>
                    \/ dl[j].obj.x + dl[j].obj.y < dl[k].obj.x + dl[k].obj.y
                    \/ /\ dl[j].obj.x + dl[j].obj.y = dl[k].obj.x + dl[k].obj.y
                       /\ IndexIn(all, dl[j]) < IndexIn(all, dl[k])

\* platforms and buildings are interleaved in the list, two objects have the
\* same key, and the insertion order is not the drawing order
C14_Witness ==
    /\ projectData # null
    /\ Len(packages) = MaxPackages
    /\ DrawList(City) # AllObjects(City)
    /\ \E j \in 1..(Len(packages) + Len(buildings) - 1) :
          LET dl == DrawList(City)
          IN /\ DepthKey(dl[j]) = DepthKey(dl[j + 1])
             /\ dl[j].type = "building" /\ dl[j + 1].type = "building"
    /\ \E j \in 1..(Len(packages) + Len(buildings) - 1) :
          LET dl == DrawList(City)
          IN dl[j].type = "building" /\ dl[j + 1].type = "package"

(***************************************************************************)
(* Colour manager properties                                               *)
(***************************************************************************)
ColorCalled(call) == colorOut # null /\ colorOut.call = call
ColorManager == GitMetadataColorManager(colorIn.maxCommits)
\* the hue the manager returns for a commit count, the other arguments as
\* they are
HueOf(commits) ==
    getColorForBuilding(ColorManager,
                        [colorIn.gitMetadata EXCEPT !.commits = RInt(commits)],
                        colorIn.options, colorIn.now).hue
\* the first hue of the scale in use
TopHue == IF colorIn.options.colorBlindMode THEN 270 ELSE 240

\* C15: with frequency colouring enabled, the hue getColorForBuilding returns
\* is non-increasing in the commit count c over [0, maxCommits], it is 240
\* for c = 0 and 0 for c = maxCommits in standard mode, 270 and 30 in
\* colour-blind mode, and a count above maxCommits gets the hue of maxCommits.
C15_HueHeatMap ==
    (/\ ColorCalled("getColorForBuilding")
     /\ colorIn.options.useFrequency
     /\ colorIn.gitMetadata # undefined
     /\ colorIn.gitMetadata.commits # undefined) =>
        LET c == colorIn.gitMetadata.commits[1]
            max == ColorManager.maxCommits
            hue == colorOut.result.hue
        IN /\ \A c2 \in ColorCommits :
                 (c <= c2 /\ c2 <= max) => RLe(HueOf(c2), hue)
           /\ c = 0 => hue = RInt(TopHue)
           /\ c = max => hue = RInt(TopHue - 240)
           /\ c > max => hue = HueOf(max)

\* 90 commits where maxCommits is 50, standard mode: the hue of 50 commits
C15_Witness ==
    /\ ColorCalled("getColorForBuilding")
    /\ colorIn.options.useFrequency
    /\ ~colorIn.options.colorBlindMode
    /\ colorIn.gitMetadata # undefined
    /\ colorIn.maxCommits = 50
    /\ colorIn.gitMetadata.commits = RInt(90)
    /\ colorOut.result.hue = RInt(0)

\* the age of lastModified in time units
AgeUnits == colorIn.now[1] - colorIn.gitMetadata.lastModified[1]
\* lastModified is present and is a date
HasDate ==
    /\ colorIn.gitMetadata # undefined
    /\ colorIn.gitMetadata.lastModified # undefined
    /\ ~IsNaN(colorIn.gitMetadata.lastModified)
\* the saturation the manager returns for an age, the other arguments as
\* they are
SaturationOf(age) ==
    getColorForBuilding(ColorManager,
                        [colorIn.gitMetadata EXCEPT
                            !.lastModified = RInt(colorIn.now[1] - age)],
                        colorIn.options, colorIn.now).saturation

LabelCommits == CommitsOrZero(colorIn.gitMetadata)

\* C18: getFrequencyLabel answers every non-negative commit count: "No
\* changes" for 0, "Single change" for 1, "Low activity" for 2..4, "Moderate
\* activity" for 5..14, "High activity" for 15..49 and "Very high activity"
\* for 50 and above.
C18_FrequencyLabels ==
    ColorCalled("getFrequencyLabel") =>
        /\ LabelCommits = 0 => colorOut.result = "No changes"
        /\ LabelCommits = 1 => colorOut.result = "Single change"
        /\ LabelCommits \in 2..4 => colorOut.result = "Low activity"
        /\ LabelCommits \in 5..14 => colorOut.result = "Moderate activity"
        /\ LabelCommits \in 15..49 => colorOut.result = "High activity"
        /\ LabelCommits >= 50 => colorOut.result = "Very high activity"

\* 5 commits, the first count of "Moderate activity"
C18_Witness ==
    /\ ColorCalled("getFrequencyLabel")
    /\ LabelCommits = 5
    /\ colorOut.result = "Moderate activity"

\* C19: getColorForBuilding returns hue 200 whenever frequency colouring is
\* disabled or the commit count is absent, saturation 70 whenever age
\* colouring is disabled or lastModified is absent, and lightness 50 always,
\* whatever the other arguments and maxCommits are.
C19_DefaultColour ==
    ColorCalled("getColorForBuilding") =>
        LET git == colorIn.gitMetadata
            noCommits == git = undefined \/ git.commits = undefined
            noDate == git = undefined \/ git.lastModified = undefined
        IN /\ (~colorIn.options.useFrequency \/ noCommits) =>
                 colorOut.result.hue = RInt(200)
           /\ (~colorIn.options.useAge \/ noDate) =>
                 colorOut.result.saturation = RInt(70)
           /\ colorOut.result.lightness = RInt(50)

\* frequency colouring disabled for a file with 50 commits of 50, a year old
C19_Witness ==
    /\ ColorCalled("getColorForBuilding")
    /\ ~colorIn.options.useFrequency
    /\ colorIn.options.useAge
    /\ HasDate
    /\ colorIn.maxCommits = 50
    /\ colorIn.gitMetadata.commits = RInt(50)
    /\ AgeUnits = 365 * UnitsPerDay
    /\ colorOut.result = [hue |-> RInt(200), saturation |-> RInt(20),
                          lightness |-> RInt(50)]

(***************************************************************************)
(* Building colours                                                        *)
(***************************************************************************)
\* gitColorManager as any load may have left it
ColorManagers == {null} \cup {GitMetadataColorManager(m) : m \in ColorMaxCommits}

\* C20: in a dataset without git metadata every building that is neither
\* hovered nor selected is painted in the default colour, hue 200 and
\* saturation 70.
C20_NoGitDataDefaultColour ==
    \A i \in 1..Len(buildings), manager \in ColorManagers, now \in ColorNows :
        (/\ buildings[i].gitMetadata = undefined
         /\ hoveredBuilding # buildings[i].id
         /\ selectedBuilding # buildings[i].id) =>
            LET painted == RightFaceColor(
                               BuildingColors(buildings[i], hoveredBuilding,
                                              selectedBuilding, manager,
                                              gitVisualization, RInt(now)))
            IN painted.hue = RInt(200) /\ painted.saturation = RInt(70)

(***************************************************************************)
(* Loading                                                                 *)
(***************************************************************************)
\* a document without a packages array arrives, by the fetch or by a file
NoPackagesArrives ==
    \/ FetchThen(NoPackagesDocument)
    \/ \E i \in 1..MaxReads :
          /\ ReaderOnloadOf(i)
          /\ ~HasPackages(reads[i].doc)

\* C21: a document without a packages array, fetched or selected, is
\* rejected with an error shown to the user and leaves the dataset, the
\* placements and the view as they were, and no later event handler throws.
C21_NoPackagesLoadRejected ==
    [][/\ NoPackagesArrives =>
            /\ fileStatus' = "error" \/ fileInputVisible'
            /\ projectData' = projectData
            /\ packages' = packages
            /\ buildings' = buildings
            /\ View' = View
       /\ ~uncaught']_vars

(***************************************************************************)
(* Classes without linesOfCode                                             *)
(***************************************************************************)
\* the package with linesOfCode 0 written into the classes that have none
WithZeroLoc(pkg) ==
    [pkg EXCEPT !.classes =
        [c \in DOMAIN pkg.classes |->
            IF "linesOfCode" \in DOMAIN pkg.classes[c] THEN pkg.classes[c]
            ELSE ClassRecord(pkg.classes[c].name, RInt(0))]]

\* C22: a class without linesOfCode counts as a class with linesOfCode 0:
\* it adds 0 to the mass of its package and its building is 20 wide, 20
\* deep and 10 high.
C22_MissingLinesOfCodeIsZero ==
    layoutOut # null =>
        /\ layoutOut.call = "calculatePackageMass" =>
                layoutOut.result = PackageMassNumber(WithZeroLoc(layoutIn))
        /\ layoutOut.call = "building" =>
                /\ layoutOut.result =
                       BuildingNumbers(WithZeroLoc(layoutIn).classes[layoutOut.class])
                /\ "linesOfCode" \notin DOMAIN layoutIn.classes[layoutOut.class] =>
                       layoutOut.result =
                           [width |-> RInt(minBuildingWidth),
                            depth |-> RInt(minBuildingDepth),
                            height |-> RInt(minBuildingHeight)]

(***************************************************************************)
(* The fetch and the file prompt                                           *)
(***************************************************************************)
\* some file selected so far has been loaded
FileLoaded(rs) == \E i \in DOMAIN rs : rs[i].state = "loaded"

\* C23: the fetch of data.json is started once and never again; when it
\* fails, whatever the reason, the file prompt is shown, and the prompt is
\* hidden only when a file has been loaded.
C23_FetchOnceAndPromptStays ==
    [][/\ fetchState # "pending" => fetchState' = fetchState
       /\ (fetchState = "pending" /\ fetchState' = "failed") => fileInputVisible'
       /\ (fileInputVisible /\ ~fileInputVisible') => FileLoaded(reads)]_vars

\* the fetch has failed, one file was rejected and a later one loaded, and
\* the prompt is hidden again
C23_Witness ==
    /\ fetchState = "failed"
    /\ ~fileInputVisible
    /\ Len(reads) = 2
    /\ reads[1].state = "rejected"
    /\ reads[2].state = "loaded"

(***************************************************************************)
(* formatDate                                                              *)
(***************************************************************************)
\* whole days between the date formatDate was called with and now
ElapsedDays == (colorIn.now[1] - colorOut.dateString[1]) \div UnitsPerDay

\* C24: for a date d >= 0 whole days ago formatDate returns "Today" for
\* d = 0, "Yesterday" for d = 1, "d days ago" for 2 <= d < 7, the whole
\* weeks d / 7 for 7 <= d < 30, the whole months d / 30 for 30 <= d < 365
\* and the whole years d / 365 from 365 days on.
C24_FormatDateRanges ==
    (/\ ColorCalled("formatDate")
     /\ colorOut.dateString # undefined
     /\ IsFinite(colorOut.dateString)
     /\ ElapsedDays >= 0) =>
        LET d == ElapsedDays
            r == colorOut.result
        IN /\ d = 0 => r = [count |-> undefined, text |-> "Today"]
           /\ d = 1 => r = [count |-> undefined, text |-> "Yesterday"]
           /\ (2 <= d /\ d < 7) => r = [count |-> <<d, 1>>, text |-> "days ago"]
           /\ (7 <= d /\ d < 30) =>
                 r = [count |-> <<d \div 7, 1>>, text |-> "weeks ago"]
           /\ (30 <= d /\ d < 365) =>
                 r = [count |-> <<d \div 30, 1>>, text |-> "months ago"]
           /\ d >= 365 => r = [count |-> <<d \div 365, 1>>, text |-> "years ago"]

\* a date exactly 7 days old is "1 weeks ago"
C24_Witness ==
    /\ ColorCalled("formatDate")
    /\ colorOut.dateString = RInt(colorIn.now[1] - 7 * UnitsPerDay)
    /\ colorOut.result = [count |-> RInt(1), text |-> "weeks ago"]

(***************************************************************************)
(* Colour precedence                                                       *)
(***************************************************************************)
\* C25: a building is painted in the selected colour when it is selected,
\* else in the hover colour when it is hovered, else in the colour made of
\* its git metadata when it has some and a colour manager exists, else in
\* the base colour; hovered and selected together give the selected colour.
C25_ColourPrecedence ==
    ColorCalled("drawBuilding") =>
        LET isSelected == colorOut.selected = ColorBuilding.id
            isHovered == colorOut.hovered = ColorBuilding.id
            hasGit == colorIn.gitMetadata # undefined /\ colorOut.manager # null
            painted == colorOut.result
        IN /\ isSelected => painted = HslOfRgb(buildingSelectedColor)
           /\ (~isSelected /\ isHovered) =>
                 painted = HslOfRgb(buildingHighlightColor)
           /\ (~isSelected /\ ~isHovered /\ hasGit) =>
                 painted = getColorForBuilding(
                               colorOut.manager, colorIn.gitMetadata,
                               colorIn.options, colorIn.now)
           /\ (~isSelected /\ ~isHovered /\ ~hasGit) =>
                 painted = HslOfRgb(buildingBaseColor)

\* a building with git metadata that is hovered and selected at once, drawn
\* with a colour manager, is painted in the selected colour
C25_Witness ==
    /\ ColorCalled("drawBuilding")
    /\ colorOut.selected = ColorBuilding.id
    /\ colorOut.hovered = ColorBuilding.id
    /\ colorOut.manager # null
    /\ colorIn.gitMetadata # undefined
    /\ colorIn.gitMetadata.commits = RInt(50)
    /\ colorOut.result = HslOfRgb(buildingSelectedColor)

(***************************************************************************)
(* Rows of a package                                                       *)
(***************************************************************************)
\* the buildings of row r (from 0) when every row holds k buildings
RowOf(bs, r, k) == {i \in 1..Len(bs) : (i - 1) \div k = r}

\* C26: the buildings of a package follow each other by non-increasing
\* linesOfCode, classes of equal linesOfCode in input order; they fill rows
\* of min(6, ceil(sqrt(n))) buildings from left to right; a row starts at
\* the package's left padding, the first at its top padding, each further
\* one below the deepest building of the row before plus the spacing.
C26_RowMajorByLinesOfCode ==
    layoutOut # null =>
        LET bs == layoutOut.buildings
            pkg == layoutOut.packages[1]
            k == Min2(6, CeilSqrt(Len(bs)))
        IN /\ \A i, j \in 1..Len(bs) :
                 i < j =>
                    \/ bs[i].linesOfCode > bs[j].linesOfCode
                    \/ /\ bs[i].linesOfCode = bs[j].linesOfCode
                       /\ bs[i].className[2] < bs[j].className[2]
           /\ \A i \in 1..Len(bs) :
                 IF (i - 1) % k # 0
                 THEN /\ bs[i].x = bs[i - 1].x + bs[i - 1].width + buildingSpacing
                      /\ bs[i].y = bs[i - 1].y
                 ELSE /\ bs[i].x = pkg.x + packagePadding
                      /\ bs[i].y =
                            IF i = 1 THEN pkg.y + packagePadding
                            ELSE bs[i - 1].y + buildingSpacing
                                 + SetMax({bs[h].depth :
                                             h \in RowOf(bs, (i - 2) \div k, k)})

\* the package of 37 classes: rows of six, the seventh building starts the
\* second row below the 80-deep buildings of the first
C26_Witness ==
    /\ layoutOut # null
    /\ Len(layoutOut.buildings) >= 37
    /\ layoutOut.buildings[6].y = layoutOut.buildings[1].y
    /\ layoutOut.buildings[7].x = layoutOut.packages[1].x + packagePadding
    /\ layoutOut.buildings[7].y = layoutOut.buildings[1].y + 80 + buildingSpacing

(***************************************************************************)
(* Quadrants                                                               *)
(***************************************************************************)
\* the mass of the document's package that platform k was made for
PlacedMass(k) == calculatePackageMass(projectData.packages[packages[k].name])

\* startX and startY of quadrant s (from 0) for the row width w
QuadrantOrigin(s, w) ==
    <<<<w, w>>, <<2 * w, 0>>, <<0, 2 * w>>, <<0, 0>>>>[s + 1]

\* C27: under the quadrant strategy the packages, by descending mass, are cut
\* into four slices of ceil(n / 4) packages, laid out from the origins of the
\* four quadrants: every package of the document, empty ones included, has
\* exactly one platform, every class exactly one building, and a package of
\* an earlier quadrant is at least as heavy as one of a later quadrant.
C27_QuadrantsPartition ==
    (projectData # null /\ layoutStrategy = "quadrant") =>
        LET n == Len(projectData.packages)
            q == CeilDiv(n, 4)
            w == CeilSqrt(q) * estimatedPackageSize
        IN /\ Len(packages) = n
           /\ \A p \in 1..n :
                 /\ Cardinality({k \in 1..Len(packages) :
                        packages[k].name = projectData.packages[p].name}) = 1
                 /\ \A c \in DOMAIN projectData.packages[p].classes :
                       Cardinality({i \in 1..Len(buildings) :
                          buildings[i].className =
                             projectData.packages[p].classes[c].name}) = 1
           /\ \A k \in 1..Len(packages) :
                 LET origin == QuadrantOrigin((k - 1) \div q, w)
                 IN /\ packages[k].x >= origin[1]
                    /\ packages[k].y >= origin[2]
                    /\ (k - 1) % q = 0 =>
                          packages[k].x = origin[1] /\ packages[k].y = origin[2]
           /\ \A j, k \in 1..Len(packages) :
                 (j - 1) \div q < (k - 1) \div q => PlacedMass(j) >= PlacedMass(k)

\* five packages in quartiles of two: the heaviest two in the centre, the
\* next two on the right, the package without classes alone at the bottom
C27_Witness ==
    /\ projectData = QuadrantDataset
    /\ layoutStrategy = "quadrant"
    /\ Len(packages) = 5
    /\ <<packages[1].name, packages[2].name>> = <<5, 3>>
    /\ <<packages[3].name, packages[4].name>> = <<1, 4>>
    /\ packages[3].x = 2 * packages[1].x /\ packages[3].y = 0
    /\ packages[5].name = 2
    /\ packages[5].buildings = <<>>
    /\ packages[5].x = 0 /\ packages[5].y = 2 * packages[1].y

(***************************************************************************)
(* Platforms under their buildings                                         *)
(***************************************************************************)
\* C28: in a render pass every building comes after the platform of its
\* package, because its depth key x + y is larger than the platform's.
C28_BuildingAfterItsPlatform ==
    projectData # null =>
        \A k \in 1..Len(packages), i \in 1..Len(buildings) :
            (\E h \in DOMAIN packages[k].buildings :
                 packages[k].buildings[h] = buildings[i].id) =>
               /\ buildings[i].x + buildings[i].y > packages[k].x + packages[k].y
               /\ IndexIn(DrawList(City),
                          [type |-> "building", obj |-> buildings[i]])
                    > IndexIn(DrawList(City),
                              [type |-> "package", obj |-> packages[k]])

\* the five packages in a grid: a platform is drawn after a building of
\* another package, and the seven buildings are all drawn
C28_Witness ==
    /\ projectData = QuadrantDataset
    /\ layoutStrategy = "grid"
    /\ Len(buildings) = 7
    /\ \E j \in 1..(Len(packages) + Len(buildings) - 1) :
          /\ DrawList(City)[j].type = "building"
          /\ DrawList(City)[j + 1].type = "package"

(***************************************************************************)
(* Normalisation bounds                                                    *)
(***************************************************************************)
\* the largest commit count of the git records, 1 if none is positive
LargestCommits(gits) ==
    Max2(1, SetMax({0} \cup {g.commits[1] : g \in {h \in gits : h.commits # undefined}}))

\* C29: the normalisation bounds and the colour manager are those of the
\* dataset that is loaded: maxCommits is its largest commit count (1 if
\* none is positive), so commits / maxCommits of every building is in
\* [0, 1]; nothing of a dataset loaded before remains.
C29_BoundsOfCurrentDataset ==
    (projectData # null /\ HasPackages(projectData)) =>
        IF GitRecords(projectData) = {}
        THEN gitColorManager = null /\ gitNormalization = undefined
        ELSE /\ gitNormalization # undefined
             /\ gitNormalization.maxCommits = LargestCommits(GitRecords(projectData))
             /\ gitColorManager # null
             /\ gitColorManager.maxCommits = gitNormalization.maxCommits
             /\ \A i \in 1..Len(buildings) :
                   (/\ buildings[i].gitMetadata # undefined
                    /\ buildings[i].gitMetadata.commits # undefined) =>
                      /\ 0 <= buildings[i].gitMetadata.commits[1]
                      /\ buildings[i].gitMetadata.commits[1]
                            <= gitColorManager.maxCommits

(***************************************************************************)
(* Order of the loads                                                      *)
(***************************************************************************)
\* the file selected last among those that have been loaded
LastLoaded(rs) == SetMax({i \in DOMAIN rs : rs[i].state = "loaded"})

\* C30: the dataset shown is that of the load started last among the loads
\* that succeeded, in whatever order they complete: the file selected last,
\* not one selected before it, and not data.json, whose fetch started first.
C30_LatestLoadShown ==
    FileLoaded(reads) => projectData = reads[LastLoaded(reads)].doc
====
